---- MODULE Spec2Model ----
(***************************************************************************)
(* Location-aware discovery and mapping subsystem of the nyama app.        *)
(*                                                                         *)
(*   SpecHome : HomePage + useGeolocation (position service, distance      *)
(*              sort, displayed collection).                               *)
(*   SpecDash : DashboardPage.handleGeocode + OwnerMap (editable pin).     *)
(*                                                                         *)
(* Coordinates are integers in units of 1e-7 degree; distances returned by *)
(* haversine are integers in units of 1e-4 km, and a distance rounded by   *)
(* toFixed(2) is an integer in units of 1e-2 km.                           *)
(***************************************************************************)
EXTENDS Integers, Sequences, FiniteSets, TLC

VARIABLES
  \* ---- HomePage / useGeolocation ----
  supported,     \* navigator.geolocation exists (environment, fixed)
  restaurants,   \* HomePage state: listing records fetched from Firestore
  loading,       \* HomePage state: initial fetch not yet settled
  fetchError,    \* HomePage state: TRUE when the initial fetch rejected
  coords,        \* hook state: NullCoords or a position
  gpsLoading,    \* hook state
  gpsError,      \* hook state: "null" or an error message
  gpsActive,     \* hook state
  gpsPending,    \* number of getCurrentPosition requests not yet called back
  selectedDistrict, \* HomePage state: district chip ("All Districts" = none)
  selectedCat,   \* HomePage state: category chip ("all" = none)
  searchQuery,   \* HomePage state: text of the search box
  displayed,     \* the collection computed by the last render of HomePage
  sinceClear,    \* history: clearGPS ran and requestGPS has not run since
  \* ---- DinerMap (browse map of HomePage) ----
  mapRestaurants,\* the restaurants prop at the last run of the pins effect
  layerRef,      \* layerRef.current: the restaurant markers the map tracks
  mapMarkers,    \* restaurant marker layers on the Leaflet map
  userPin,       \* userPin.current: NullCoords or the visitor marker's place
  userLayers,    \* visitor marker layers on the Leaflet map
  mapView,       \* Leaflet viewport: fitted bounds or a centre
  \* ---- DashboardPage / OwnerMap ----
  formAddress,   \* form.address
  formLat,       \* form.lat
  formLng,       \* form.lng
  markerPos,     \* Leaflet marker position <<lat, lng>>
  pinCoords,     \* OwnerMap state pinCoords <<lat, lng>>
  viewCenter,    \* Leaflet map view centre <<lat, lng>>
  geoInFlight,   \* geocode lookups awaiting their response
  geoIssued,     \* history: number of lookups issued (tag of the latest)
  pinTick,       \* history: value of geoIssued at the last drag-end / tap
  pinEvents,     \* history: number of drag-end / tap events so far
  pinSource,     \* history: kind of the last drag-end / tap ("init" if none)
  lastPin,       \* history: rounded coordinates of the last drag-end / tap
  pinChangeCalls,\* history: number of onPinChange invocations so far
  chainUpdates,  \* history: state updates made by the last coordinate event
  recordLoaded,  \* the load effect has called populateForm
  geoUnhandled,  \* a handleGeocode promise was rejected
  toast,         \* App state: the message of the notice on screen, or "null"
  toastTimer,    \* a setTimeout callback of showToast is still to run
  \* ---- App: routing, cart and booking ----
  page,          \* App state: "home", "detail" or "dashboard"
  selectedRestaurant, \* App state: id of the listing on the detail page
  cart,          \* App state: the entries of the cart object
  cartRestaurantId,   \* App state: restaurant the cart belongs to, or "null"
  bookingOpen,   \* App state: the booking modal is shown
  bookingRestaurant,  \* App state: id of the listing the modal books
  bookingId,     \* BookingModal state: TRUE once a booking was created
  modalError,    \* BookingModal state: an error line is shown
  lastBooking,   \* the document the last createBooking call stored
  \* ---- the Leaflet widgets of DinerMap, OwnerMap and ReadOnlyMap ----
  widgets,       \* the L.map instances created and not yet removed
  created,       \* history: number of L.map instances created so far
  mounted,       \* per map component: an instance of it is mounted
  mapObj,        \* per map component: mapObj.current (0 for null)
  cleanupOf,     \* per map component: the map its pending cleanup removes
  eventWidget,   \* history: the map whose handler ran last (0: none yet)
  orphanEvent,   \* history: a handler ran on a map its component had left
  browseProps,   \* the restaurants prop of the mounted DinerMap
  browseMarkers, \* the markers DinerMap's pins effect added
  detailListing, \* DetailPage: the restaurant prop, or NoListing
  showMap,       \* DetailPage state: the map block is expanded
  roMarkers,     \* positions of the markers on ReadOnlyMap's map
  roZoom,        \* zoom level of ReadOnlyMap's map
  roCenter,      \* centre of ReadOnlyMap's map
  \* ---- calls of the pure helpers sortByDistance and isOpen ----
  sortPos,       \* position state (coords) the helper closes over
  sortInput,     \* list passed to sortByDistance
  sortOnce,      \* sortByDistance(sortInput)
  sortTwice,     \* sortByDistance(sortOnce)
  sortStage,     \* number of applications made so far
  openTime,      \* isOpen argument: string, "" or absent
  closeTime,     \* isOpen argument: string, "" or absent
  currentMinutes,\* minute of the day read from new Date()
  isOpenResult,  \* value returned by isOpen
  openStage      \* 1 once isOpen has been called

homeVars == <<supported, restaurants, loading, fetchError, coords, gpsLoading,
              gpsError, gpsActive, gpsPending, selectedDistrict, selectedCat,
              searchQuery, displayed, sinceClear, mapRestaurants, layerRef,
              mapMarkers, userPin, userLayers, mapView>>
mapVars == <<mapRestaurants, layerRef, mapMarkers, userPin, userLayers,
             mapView>>
dashVars == <<formAddress, formLat, formLng, markerPos, pinCoords, viewCenter,
              geoInFlight, geoIssued, pinTick, pinEvents, pinSource, lastPin,
              pinChangeCalls, chainUpdates, recordLoaded, geoUnhandled,
              toast, toastTimer>>
sortVars == <<sortPos, sortInput, sortOnce, sortTwice, sortStage>>
openVars == <<openTime, closeTime, currentMinutes, isOpenResult, openStage>>
cartVars == <<page, selectedRestaurant, cart, cartRestaurantId, bookingOpen,
              bookingRestaurant, bookingId, modalError, lastBooking>>
viewVars == <<widgets, created, mounted, mapObj, cleanupOf, eventWidget,
              orphanEvent, browseProps, browseMarkers, detailListing,
              showMap, roMarkers, roZoom, roCenter>>
appVars == <<cartVars, viewVars>>
vars == <<homeVars, dashVars, sortVars, openVars, appVars>>

---------------------------------------------------------------------------
\* Bounds of the model
MaxListings == 3     \* longest listing collection fetched
MaxInFlight == 2     \* position requests simultaneously in flight
MaxLookups  == 3     \* geocode lookups issued in one behaviour
MaxWidgets  == 3     \* L.map instances created in one behaviour
MaxZoomSteps == 1    \* zoom levels a map is taken away from its first zoom
MaxQty      == 2     \* largest quantity of one cart entry
MaxPinEvents == 2    \* drag-end / tap events in one behaviour

---------------------------------------------------------------------------
\* JavaScript values that may be a number, undefined or NaN
Undefined == [t |-> "undefined", v |-> 0]
NaN       == [t |-> "NaN", v |-> 0]
Num(n)    == [t |-> "number", v |-> n]
IsNum(x)  == x.t = "number"

NullCoords == [t |-> "null", lat |-> 0, lng |-> 0]
Pos(la, ln) == [t |-> "pos", lat |-> la, lng |-> ln]

\* JavaScript strings are sequences of one-character strings; a string
\* property of a document is a string or absent (undefined)
Str(chars) == [t |-> "string", s |-> chars]
NoStr      == [t |-> "undefined", s |-> <<>>]
\* (x || ""): the characters of a string value, none when it is absent
OrEmpty(x) == IF x.t = "string" THEN x.s ELSE <<>>

\* An array-of-strings property is an array or absent
Arr(items) == [t |-> "array", a |-> items]
NoArr      == [t |-> "undefined", a |-> <<>>]
\* (x || [])
OrEmptyArr(x) == IF x.t = "array" THEN x.a ELSE <<>>

\* String.prototype.toLowerCase on the letters A-Z
LowerTable ==
  ("A" :> "a") @@ ("B" :> "b") @@ ("C" :> "c") @@ ("D" :> "d") @@
  ("E" :> "e") @@ ("F" :> "f") @@ ("G" :> "g") @@ ("H" :> "h") @@
  ("I" :> "i") @@ ("J" :> "j") @@ ("K" :> "k") @@ ("L" :> "l") @@
  ("M" :> "m") @@ ("N" :> "n") @@ ("O" :> "o") @@ ("P" :> "p") @@
  ("Q" :> "q") @@ ("R" :> "r") @@ ("S" :> "s") @@ ("T" :> "t") @@
  ("U" :> "u") @@ ("V" :> "v") @@ ("W" :> "w") @@ ("X" :> "x") @@
  ("Y" :> "y") @@ ("Z" :> "z")
toLowerCase(chars) ==
  [i \in DOMAIN chars |->
     IF chars[i] \in DOMAIN LowerTable THEN LowerTable[chars[i]] ELSE chars[i]]

\* String.prototype.includes: q occurs in chars as a contiguous run
includes(chars, q) ==
  \E i \in 0..(Len(chars) - Len(q)) : SubSeq(chars, i + 1, i + Len(q)) = q

\* Array.prototype.includes: strict equality with an element
arrayIncludes(items, x) == \E i \in DOMAIN items : items[i] = x

\* Texts used by the model
AllDistricts == <<"A","l","l"," ","D","i","s","t","r","i","c","t","s">>
CatAll       == <<"a","l","l">>
Gulu         == <<"G","u","l","u">>
Jinja        == <<"J","i","n","j","a">>
CatLocal     == <<"l","o","c","a","l">>
CatPilau     == <<"p","i","l","a","u">>

\* Fixes the device may report
Fixes == { Pos(3000000, 325800000), Pos(3187000, 325840000) }

\* Listing documents the persistence layer may return
\* (id, lat?, lng?, name?, city?, address?, categories?, featured?;
\* an absent featured flag reads as FALSE)
Catalogue ==
  { [id |-> "A", lat |-> Num(3100000), lng |-> Num(325900000),
     name |-> Str(<<"N","y","a","m","a">>), city |-> Str(Gulu),
     address |-> Str(<<"G","u","l","u"," ","R","d">>),
     categories |-> Arr(<<CatLocal, CatPilau>>), featured |-> FALSE],
    [id |-> "B", lat |-> Num(4000000), lng |-> Num(327000000),
     name |-> Str(<<"G","R","I","L","L">>), city |-> Str(Jinja),
     address |-> NoStr,
     categories |-> Arr(<< <<"P","i","l","a","u">> >>),
     featured |-> TRUE],
    [id |-> "C", lat |-> Undefined, lng |-> Undefined,
     name |-> NoStr, city |-> NoStr, address |-> NoStr,
     categories |-> NoArr, featured |-> FALSE],
    [id |-> "D", lat |-> Num(3100000), lng |-> Undefined,
     name |-> Str(<<"D","e","l","i">>), city |-> Str(<<"g","u","l","u">>),
     address |-> Str(<<"J","i","n","j","a"," ","R","d">>),
     categories |-> Arr(<<>>), featured |-> FALSE],
    [id |-> "E", lat |-> Num(2900000), lng |-> Num(325700000),
     name |-> Str(<<"E","a","t">>), city |-> Str(Jinja),
     address |-> Str(<<"P","i","l","a","u"," ","S","t">>),
     categories |-> Arr(<<CatLocal>>), featured |-> TRUE] }

\* Collections of distinct documents, at most MaxListings long
Injective(s) == \A i, j \in DOMAIN s : i # j => s[i].id # s[j].id
Collections ==
  UNION { { s \in [1..n -> Catalogue] : Injective(s) } : n \in 0..MaxListings }

---------------------------------------------------------------------------
\* useGeolocation.js: haversine, tabulated on the model's coordinates
\* (value of R * c in units of 1e-4 km).
HaversineTable ==
  ( <<3000000, 325800000, 3100000, 325900000>> :> 15725 ) @@
  ( <<3000000, 325800000, 4000000, 327000000>> :> 173690 ) @@
  ( <<3000000, 325800000, 2900000, 325700000>> :> 15725 ) @@
  ( <<3187000, 325840000, 3100000, 325900000>> :> 11751 ) @@
  ( <<3187000, 325840000, 4000000, 327000000>> :> 157509 ) @@
  ( <<3187000, 325840000, 2900000, 325700000>> :> 35507 )

\* lat1/lng1 are numbers (the stored fix); lat2/lng2 may be undefined, and
\* arithmetic on undefined yields NaN.
haversine(lat1, lng1, lat2, lng2) ==
  IF IsNum(lat2) /\ IsNum(lng2)
    THEN Num(HaversineTable[<<lat1, lng1, lat2.v, lng2.v>>])
    ELSE NaN

\* parseFloat(x.toFixed(2)): round to 2 decimals; NaN stays NaN
ToFixed2 == 100
RoundKm(x) == IF IsNum(x) THEN Num((x.v + (ToFixed2 \div 2)) \div ToFixed2) ELSE NaN

\* .map((item) => ({...item, distance: ...}))
Annotate(item, c) ==
  [item EXCEPT
     !.distance = RoundKm(haversine(c.lat, c.lng, item.lat, item.lng))]

\* A raw document has no distance property
Raw(item) ==
  [id |-> item.id, lat |-> item.lat, lng |-> item.lng, name |-> item.name,
   city |-> item.city, address |-> item.address,
   categories |-> item.categories, featured |-> item.featured,
   distance |-> Undefined]

\* (a, b) => a.distance - b.distance, as Array.prototype.sort reads it:
\* a NaN result counts as +0
CompareFn(a, b) ==
  IF IsNum(a.distance) /\ IsNum(b.distance)
    THEN (IF a.distance.v < b.distance.v THEN -1
          ELSE IF a.distance.v > b.distance.v THEN 1 ELSE 0)
    ELSE 0

\* ECMAScript "consistent comparison function" on the elements of list
ConsistentCompare(list) ==
  \A i, j, k \in DOMAIN list :
     /\ (CompareFn(list[i], list[j]) = 0 /\ CompareFn(list[j], list[k]) = 0)
          => CompareFn(list[i], list[k]) = 0
     /\ (CompareFn(list[i], list[j]) < 0 /\ CompareFn(list[j], list[k]) < 0)
          => CompareFn(list[i], list[k]) < 0

\* The orders in which sort may return n elements: permutations of 1..n
PermTable ==
  [n \in 0..MaxListings |->
     { p \in [1..n -> 1..n] : \A i, j \in 1..n : i # j => p[i] # p[j] }]
Perms(n) == PermTable[n]

\* Array.prototype.sort: stable when the comparison is consistent, an
\* implementation-defined permutation when it is not.
SortOutcomes(list) ==
  LET n == Len(list)
      stable(p) == \A i, j \in 1..n : i < j =>
                      \/ CompareFn(list[p[i]], list[p[j]]) < 0
                      \/ (CompareFn(list[p[i]], list[p[j]]) = 0 /\ p[i] < p[j])
  IN IF ConsistentCompare(list)
       THEN { [i \in 1..n |-> list[p[i]]] : p \in { q \in Perms(n) : stable(q) } }
       ELSE { [i \in 1..n |-> list[p[i]]] : p \in Perms(n) }

\* Faulty variant: listings without coordinates are filtered out before
\* the sort
sortByDistance_DropsNoCoords(list, c) ==
  IF c = NullCoords
    THEN { list }
    ELSE LET keep == SelectSeq(list, LAMBDA it : IsNum(it.lat) /\ IsNum(it.lng))
         IN SortOutcomes([i \in DOMAIN keep |-> Annotate(keep[i], c)])

\* Faulty variant: no early return without a position; every distance is
\* then computed from missing coordinates
sortByDistance_NoGuard(list, c) ==
  IF c = NullCoords
    THEN SortOutcomes([i \in DOMAIN list |-> [list[i] EXCEPT !.distance = NaN]])
    ELSE SortOutcomes([i \in DOMAIN list |-> Annotate(list[i], c)])

\* useGeolocation.js sortByDistance: the set of results it may return
sortByDistance(list, c) ==
  IF c = NullCoords
    THEN { list }
    ELSE SortOutcomes([i \in DOMAIN list |-> Annotate(list[i], c)])

\* Faulty variant: the sentinel is spelled "All"
matchDist_WrongSentinel(r, district) ==
  district = <<"A","l","l">> \/ (r.city.t = "string" /\ r.city.s = district)

\* HomePage filter callback: selectedDistrict === "All Districts" ||
\* r.city === selectedDistrict
matchDist(r, district) ==
  district = AllDistricts \/ (r.city.t = "string" /\ r.city.s = district)

\* selectedCat === "all" || (r.categories || []).includes(selectedCat)
matchCat(r, cat) ==
  cat = CatAll \/ arrayIncludes(OrEmptyArr(r.categories), cat)

\* q = searchQuery.toLowerCase(); !q || name / city / address lower-cased
\* include q || some category token (as stored) includes q
matchQ(r, query) ==
  LET q == toLowerCase(query)
  IN \/ q = <<>>
     \/ includes(toLowerCase(OrEmpty(r.name)), q)
     \/ includes(toLowerCase(OrEmpty(r.city)), q)
     \/ \E i \in DOMAIN OrEmptyArr(r.categories) :
           includes(OrEmptyArr(r.categories)[i], q)
     \/ includes(toLowerCase(OrEmpty(r.address)), q)

\* HomePage: filtered = restaurants.filter(...)
filtered(rs, district, cat, query) ==
  SelectSeq([i \in DOMAIN rs |-> Raw(rs[i])],
            LAMBDA r : matchDist(r, district) /\ matchCat(r, cat)
                         /\ matchQ(r, query))

\* Faulty variant: with a position the whole collection is sorted
Render_SortsAll(rs, district, cat, query, c, active) ==
  IF active THEN sortByDistance([i \in DOMAIN rs |-> Raw(rs[i])], c)
            ELSE { filtered(rs, district, cat, query) }

\* HomePage: displayed = gpsActive ? sortByDistance(filtered) : filtered
Render(rs, district, cat, query, c, active) ==
  IF active THEN sortByDistance(filtered(rs, district, cat, query), c)
            ELSE { filtered(rs, district, cat, query) }

---------------------------------------------------------------------------
\* DinerMap (MapComponents.js)

\* DinerMap mount effect: L.map(..., { center: [0.3187, 32.5840], zoom: 12 })
InitialView == [t |-> "center", pts |-> { <<3187000, 325840000>> }]

\* Faulty variant: only the latitude is tested
NoLatLng_LatOnly(r) == r.lat.t = "undefined"

\* r.lat == null || r.lng == null
NoLatLng(r) == r.lat.t = "undefined" \/ r.lng.t = "undefined"

\* One L.marker([r.lat, r.lng]) per listing that has both coordinates
NewMarkers(rs) ==
  LET withCoords == SelectSeq(rs, LAMBDA r : ~NoLatLng(r))
  IN [i \in DOMAIN withCoords |->
        [id |-> withCoords[i].id, lat |-> withCoords[i].lat,
         lng |-> withCoords[i].lng]]

\* The markers of a sequence as a set
Layers(ms) == { ms[i] : i \in DOMAIN ms }

\* Faulty variant: the tracked markers are forgotten but stay on the map
RestaurantPins_KeepsOld(onMap, refs, rs) ==
  [onMap |-> onMap \o NewMarkers(rs), refs |-> NewMarkers(rs)]

\* DinerMap pins effect: remove the tracked markers from the map, forget
\* them, then add and track one marker per listing with coordinates
RestaurantPins(onMap, refs, rs) ==
  LET kept == SelectSeq(onMap, LAMBDA m : m \notin Layers(refs))
  IN [onMap |-> kept \o NewMarkers(rs), refs |-> NewMarkers(rs)]

\* DinerMap pins effect, last part: map.fitBounds over the listings that
\* have coordinates, when there is at least one
FitBounds(view, rs) ==
  IF NewMarkers(rs) # <<>>
    THEN [t |-> "bounds",
          pts |-> { <<NewMarkers(rs)[i].lat.v, NewMarkers(rs)[i].lng.v>> :
                      i \in DOMAIN NewMarkers(rs) }]
    ELSE view

\* Faulty variant: a new visitor marker is added at every fix
UserPinEffect_AlwaysAdds(onMap, pin, view, userCoords) ==
  IF userCoords # NullCoords
    THEN [onMap |-> onMap \o <<userCoords>>,
          pin   |-> userCoords,
          view  |-> [t |-> "center",
                     pts |-> { <<userCoords.lat, userCoords.lng>> }]]
    ELSE IF pin # NullCoords
      THEN [onMap |-> <<>>, pin |-> NullCoords, view |-> view]
      ELSE [onMap |-> onMap, pin |-> pin, view |-> view]

\* DinerMap visitor effect (deps [userCoords])
UserPinEffect(onMap, pin, view, userCoords) ==
  IF userCoords # NullCoords
    THEN [onMap |-> IF pin # NullCoords THEN <<userCoords>>
                                       ELSE onMap \o <<userCoords>>,
          pin   |-> userCoords,
          view  |-> [t |-> "center",
                     pts |-> { <<userCoords.lat, userCoords.lng>> }]]
    ELSE IF pin # NullCoords
      THEN [onMap |-> <<>>, pin |-> NullCoords, view |-> view]
      ELSE [onMap |-> onMap, pin |-> pin, view |-> view]

\* The effects of DinerMap after a render of HomePage. The map is mounted
\* only by the main return of HomePage (neither loading nor fetchError);
\* displayed is a new array at every render, so the pins effect always runs;
\* the visitor effect runs on mount and when coords is a new value.
DinerMapCommit(coordsChanged) ==
  IF loading' \/ fetchError'
    THEN UNCHANGED mapVars
    ELSE LET mounting == loading \/ fetchError
             pins   == RestaurantPins(mapMarkers, layerRef, displayed')
             fitted == FitBounds(mapView, displayed')
             user   == IF mounting \/ coordsChanged
                         THEN UserPinEffect(userLayers, userPin, fitted,
                                            coords')
                         ELSE [onMap |-> userLayers, pin |-> userPin,
                               view |-> fitted]
         IN /\ mapRestaurants' = displayed'
            /\ layerRef' = pins.refs
            /\ mapMarkers' = pins.onMap
            /\ userPin' = user.pin
            /\ userLayers' = user.onMap
            /\ mapView' = user.view

---------------------------------------------------------------------------
\* useGeolocation.js: error callback message table
MsgUnsupported == "Your browser does not support geolocation."
MsgDenied      == "Location permission denied. Please enable it in your browser settings."
MsgUnavailable == "Unable to determine your location. Check your GPS or Wi-Fi."
MsgTimeout     == "Location request timed out. Please try again."
MsgUnknown     == "Unknown geolocation error."

\* GeolocationPositionError.code values the device reports
ErrCodes == {1, 2, 3}

\* Faulty variant: the table has no entry for code 3
messages_NoTimeout(code) ==
  CASE code = 1 -> MsgDenied
    [] code = 2 -> MsgUnavailable
    [] OTHER    -> MsgUnknown

messages(code) ==
  CASE code = 1 -> MsgDenied
    [] code = 2 -> MsgUnavailable
    [] code = 3 -> MsgTimeout
    [] OTHER    -> MsgUnknown

---------------------------------------------------------------------------
\* DashboardPage initial form coordinates (Kampala default)
DefaultLat == 3187000
DefaultLng == 325840000

InitHomeVars ==
  /\ supported \in BOOLEAN
  /\ restaurants = <<>>
  /\ loading = TRUE
  /\ fetchError = FALSE
  /\ coords = NullCoords
  /\ gpsLoading = FALSE
  /\ gpsError = "null"
  /\ gpsActive = FALSE
  /\ gpsPending = 0
  /\ selectedDistrict = AllDistricts
  /\ selectedCat = CatAll
  /\ searchQuery = <<>>
  /\ displayed = <<>>
  /\ sinceClear = FALSE
  /\ mapRestaurants = <<>>
  /\ layerRef = <<>>
  /\ mapMarkers = <<>>
  /\ userPin = NullCoords
  /\ userLayers = <<>>
  /\ mapView = InitialView

InitDashVars ==
  /\ formAddress = ""
  /\ formLat = DefaultLat
  /\ formLng = DefaultLng
  /\ markerPos = <<DefaultLat, DefaultLng>>
  /\ pinCoords = <<DefaultLat, DefaultLng>>
  /\ viewCenter = <<DefaultLat, DefaultLng>>
  /\ geoInFlight = {}
  /\ geoIssued = 0
  /\ pinTick = 0
  /\ pinEvents = 0
  /\ pinSource = "init"
  /\ lastPin = <<DefaultLat, DefaultLng>>
  /\ pinChangeCalls = 0
  /\ chainUpdates = 0
  /\ recordLoaded = FALSE
  /\ geoUnhandled = FALSE
  /\ toast = "null"
  /\ toastTimer = FALSE

\* No helper call under way
InitSortVars ==
  /\ sortPos = NullCoords
  /\ sortInput = <<>>
  /\ sortOnce = <<>>
  /\ sortTwice = <<>>
  /\ sortStage = 0

InitOpenVars ==
  /\ openTime = NoStr
  /\ closeTime = NoStr
  /\ currentMinutes = 0
  /\ isOpenResult = FALSE
  /\ openStage = 0

\* No booking document stored yet
NoBooking == [t |-> "null", restaurantId |-> "null", preOrder |-> {}]

\* App and BookingModal state after construction
InitCartVars ==
  /\ page = "home"
  /\ selectedRestaurant = "null"
  /\ cart = {}
  /\ cartRestaurantId = "null"
  /\ bookingOpen = FALSE
  /\ bookingRestaurant = "null"
  /\ bookingId = FALSE
  /\ modalError = FALSE
  /\ lastBooking = NoBooking

\* The three map components of MapComponents.js
Views == { "browse", "pin", "readonly" }

\* DetailPage not rendered: no restaurant prop
NoListing == [id |-> "null", lat |-> Undefined, lng |-> Undefined]

\* No map component mounted, no L.map instance created
InitViewVars ==
  /\ widgets = {}
  /\ created = 0
  /\ mounted = [v \in Views |-> FALSE]
  /\ mapObj = [v \in Views |-> 0]
  /\ cleanupOf = [v \in Views |-> 0]
  /\ eventWidget = 0
  /\ orphanEvent = FALSE
  /\ browseProps = <<>>
  /\ browseMarkers = <<>>
  /\ detailListing = NoListing
  /\ showMap = FALSE
  /\ roMarkers = {}
  /\ roZoom = 0
  /\ roCenter = <<0, 0>>

Init ==
  /\ InitHomeVars /\ InitDashVars /\ InitSortVars /\ InitOpenVars
  /\ InitCartVars /\ InitViewVars

---------------------------------------------------------------------------
\* HomePage: the mount effect's getAllRestaurants() resolves
LoadResolve(docs) ==
  /\ loading
  /\ restaurants' = docs
  /\ loading' = FALSE
  /\ displayed' \in Render(docs, selectedDistrict, selectedCat, searchQuery,
                          coords, gpsActive)
  /\ UNCHANGED <<supported, fetchError, coords, gpsLoading, gpsError,
                 gpsActive, gpsPending, selectedDistrict, selectedCat,
                 searchQuery, sinceClear>>
  /\ UNCHANGED <<dashVars, sortVars, openVars, appVars>>
  /\ DinerMapCommit(FALSE)

\* HomePage: getAllRestaurants() rejects
LoadReject ==
  /\ loading
  /\ fetchError' = TRUE
  /\ loading' = FALSE
  /\ UNCHANGED <<supported, restaurants, coords, gpsLoading, gpsError,
                 gpsActive, gpsPending, selectedDistrict, selectedCat,
                 searchQuery, displayed, sinceClear>>
  /\ UNCHANGED <<dashVars, sortVars, openVars, appVars>>
  /\ DinerMapCommit(FALSE)

\* The GPS button is rendered only once the page has loaded without error
ButtonShown == ~loading /\ ~fetchError

\* useGeolocation.js requestGPS, environment without geolocation
requestGPS_Unsupported ==
  /\ ~supported
  /\ gpsError' = MsgUnsupported
  /\ sinceClear' = FALSE
  /\ UNCHANGED <<supported, restaurants, loading, fetchError, coords,
                 gpsLoading, gpsActive, gpsPending, selectedDistrict,
                 selectedCat, searchQuery, displayed>>

\* useGeolocation.js requestGPS, request issued
requestGPS_Issue ==
  /\ supported
  /\ gpsPending < MaxInFlight
  /\ gpsLoading' = TRUE
  /\ gpsError' = "null"
  /\ gpsPending' = gpsPending + 1
  /\ sinceClear' = FALSE
  /\ UNCHANGED <<supported, restaurants, loading, fetchError, coords,
                 gpsActive, selectedDistrict, selectedCat, searchQuery,
                 displayed>>

\* useGeolocation.js clearGPS
clearGPS ==
  /\ coords' = NullCoords
  /\ gpsActive' = FALSE
  /\ gpsError' = "null"
  /\ sinceClear' = TRUE
  /\ UNCHANGED <<supported, restaurants, loading, fetchError, gpsLoading,
                 gpsPending>>

\* HomePage handleGPS: the button toggles between clear and request
handleGPS_Clear ==
  /\ ButtonShown
  /\ gpsActive
  /\ clearGPS
  /\ displayed' \in Render(restaurants, selectedDistrict, selectedCat,
                          searchQuery, NullCoords, FALSE)
  /\ UNCHANGED <<selectedDistrict, selectedCat, searchQuery>>
  /\ UNCHANGED <<dashVars, sortVars, openVars, appVars>>
  /\ DinerMapCommit(coords # NullCoords)

\* HomePage district chip: setSelectedDistrict(dist); clearGPS()
setSelectedDistrict(dist) ==
  /\ ButtonShown
  /\ selectedDistrict' = dist
  /\ clearGPS
  /\ displayed' \in Render(restaurants, dist, selectedCat, searchQuery,
                          NullCoords, FALSE)
  /\ UNCHANGED <<selectedCat, searchQuery>>
  /\ UNCHANGED <<dashVars, sortVars, openVars, appVars>>
  /\ DinerMapCommit(coords # NullCoords)

\* Faulty variant: the category chip also clears the position, as the
\* district chip does
setSelectedCat_ClearsGPS(cat) ==
  /\ ButtonShown
  /\ selectedCat' = cat
  /\ clearGPS
  /\ displayed' \in Render(restaurants, selectedDistrict, cat, searchQuery,
                          NullCoords, FALSE)
  /\ UNCHANGED <<selectedDistrict, searchQuery>>
  /\ UNCHANGED <<dashVars, sortVars, openVars, appVars>>
  /\ DinerMapCommit(coords # NullCoords)

\* HomePage category chip: setSelectedCat(cat.id)
setSelectedCat(cat) ==
  /\ ButtonShown
  /\ selectedCat' = cat
  /\ displayed' \in Render(restaurants, selectedDistrict, cat, searchQuery,
                          coords, gpsActive)
  /\ UNCHANGED <<supported, restaurants, loading, fetchError, coords,
                 gpsLoading, gpsError, gpsActive, gpsPending,
                 selectedDistrict, searchQuery, sinceClear>>
  /\ UNCHANGED <<dashVars, sortVars, openVars, appVars>>
  /\ DinerMapCommit(FALSE)

\* HomePage search box: setSearchQuery(e.target.value)
setSearchQuery(query) ==
  /\ ButtonShown
  /\ searchQuery' = query
  /\ displayed' \in Render(restaurants, selectedDistrict, selectedCat, query,
                          coords, gpsActive)
  /\ UNCHANGED <<supported, restaurants, loading, fetchError, coords,
                 gpsLoading, gpsError, gpsActive, gpsPending,
                 selectedDistrict, selectedCat, sinceClear>>
  /\ UNCHANGED <<dashVars, sortVars, openVars, appVars>>
  /\ DinerMapCommit(FALSE)

handleGPS_RequestUnsupported ==
  /\ ButtonShown
  /\ ~gpsActive
  /\ requestGPS_Unsupported
  /\ UNCHANGED <<dashVars, sortVars, openVars, appVars>>
  /\ DinerMapCommit(FALSE)

handleGPS_RequestIssue ==
  /\ ButtonShown
  /\ ~gpsActive
  /\ requestGPS_Issue
  /\ UNCHANGED <<dashVars, sortVars, openVars, appVars>>
  /\ DinerMapCommit(FALSE)

\* getCurrentPosition success callback
GPSSuccess(fix) ==
  /\ gpsPending > 0
  /\ gpsPending' = gpsPending - 1
  /\ coords' = fix
  /\ gpsActive' = TRUE
  /\ gpsLoading' = FALSE
  /\ displayed' \in Render(restaurants, selectedDistrict, selectedCat,
                          searchQuery, fix, TRUE)
  /\ UNCHANGED <<supported, restaurants, loading, fetchError, gpsError,
                 selectedDistrict, selectedCat, searchQuery, sinceClear>>
  /\ UNCHANGED <<dashVars, sortVars, openVars, appVars>>
  /\ DinerMapCommit(TRUE)

\* Faulty variant: the error callback also drops the stored fix
GPSError_ClearsFix(code) ==
  /\ gpsPending > 0
  /\ gpsPending' = gpsPending - 1
  /\ gpsError' = messages(code)
  /\ gpsLoading' = FALSE
  /\ coords' = NullCoords
  /\ gpsActive' = FALSE
  /\ displayed' \in Render(restaurants, selectedDistrict, selectedCat,
                          searchQuery, NullCoords, FALSE)
  /\ UNCHANGED <<supported, restaurants, loading, fetchError,
                 selectedDistrict, selectedCat, searchQuery, sinceClear>>
  /\ UNCHANGED <<dashVars, sortVars, openVars, appVars>>
  /\ DinerMapCommit(coords # NullCoords)

\* Faulty variant: the error callback leaves the loading flag set
GPSError_KeepsLoading(code) ==
  /\ gpsPending > 0
  /\ gpsPending' = gpsPending - 1
  /\ gpsError' = messages(code)
  /\ UNCHANGED <<supported, restaurants, loading, fetchError, coords,
                 gpsLoading, gpsActive, selectedDistrict, selectedCat,
                 searchQuery, displayed, sinceClear>>
  /\ UNCHANGED <<dashVars, sortVars, openVars, appVars>>
  /\ DinerMapCommit(FALSE)

\* getCurrentPosition error callback
GPSError(code) ==
  /\ gpsPending > 0
  /\ gpsPending' = gpsPending - 1
  /\ gpsError' = messages(code)
  /\ gpsLoading' = FALSE
  /\ UNCHANGED <<supported, restaurants, loading, fetchError, coords,
                 gpsActive, selectedDistrict, selectedCat, searchQuery,
                 displayed, sinceClear>>
  /\ UNCHANGED <<dashVars, sortVars, openVars, appVars>>
  /\ DinerMapCommit(FALSE)

\* District chips pressed while the position service is in use
HomeDistricts == { AllDistricts, Gulu }

NextHome ==
  \/ \E docs \in Collections : LoadResolve(docs)
  \/ LoadReject
  \/ handleGPS_Clear
  \/ \E dist \in HomeDistricts : setSelectedDistrict(dist)
  \/ handleGPS_RequestUnsupported
  \/ handleGPS_RequestIssue
  \/ \E fix \in Fixes : GPSSuccess(fix)
  \/ \E code \in ErrCodes : GPSError(code)

SpecHome == Init /\ [][NextHome]_vars

\* A callback of getCurrentPosition: the browser calls one of the two
\* callbacks of every request, the error callback at the latest when the
\* 10 s timeout of the options runs out
GPSCallback ==
  \/ \E fix \in Fixes : GPSSuccess(fix)
  \/ \E code \in ErrCodes : GPSError(code)

\* Collections fetched while the position service is followed to its end:
\* none, or a listing without coordinates before one with coordinates
PositionCollections ==
  { <<>> } \cup { s \in Collections :
                   Len(s) = 2 /\ s[1].id = "C" /\ s[2].id = "A" }

NextPosition ==
  \/ \E docs \in PositionCollections : LoadResolve(docs)
  \/ LoadReject
  \/ handleGPS_Clear
  \/ \E dist \in HomeDistricts : setSelectedDistrict(dist)
  \/ handleGPS_RequestUnsupported
  \/ handleGPS_RequestIssue
  \/ \E fix \in Fixes : GPSSuccess(fix)
  \/ \E code \in ErrCodes : GPSError(code)

\* The page with a browser that answers every position request
SpecPositionFair == Init /\ [][NextPosition]_vars /\ WF_vars(GPSCallback)

\* The position service together with the category chips and the search box
NextFrame ==
  \/ \E docs \in Collections : LoadResolve(docs)
  \/ LoadReject
  \/ handleGPS_Clear
  \/ \E dist \in HomeDistricts : setSelectedDistrict(dist)
  \/ \E cat \in { CatAll, CatLocal } : setSelectedCat(cat)
  \/ \E query \in { <<>>, <<"g","u">> } : setSearchQuery(query)
  \/ handleGPS_RequestUnsupported
  \/ handleGPS_RequestIssue
  \/ \E fix \in Fixes : GPSSuccess(fix)
  \/ \E code \in ErrCodes : GPSError(code)

SpecFrame == Init /\ [][NextFrame]_vars

\* Criteria the visitor picks on the page (position service not used)
Districts == { AllDistricts, Gulu, Jinja }
Cats      == { CatAll, CatLocal, CatPilau }
Queries   == { <<>>, <<"g","u">>, <<"G","U">>, <<"p","i","l">>,
               <<"R","d">>, <<"z">> }

NextFilter ==
  \/ \E docs \in Collections : LoadResolve(docs)
  \/ \E dist \in Districts : setSelectedDistrict(dist)
  \/ \E cat \in Cats : setSelectedCat(cat)
  \/ \E query \in Queries : setSearchQuery(query)

SpecFilter == Init /\ [][NextFilter]_vars

---------------------------------------------------------------------------
\* sortByDistance called as a pure helper, once and then on its own result

\* Lists a caller may pass: filter outputs over the documents
SortInputs == { [i \in DOMAIN docs |-> Raw(docs[i])] : docs \in Collections }

InitSort ==
  /\ InitHomeVars /\ supported
  /\ InitDashVars
  /\ InitCartVars /\ InitViewVars
  /\ InitOpenVars
  /\ sortPos \in Fixes \cup {NullCoords}
  /\ sortInput \in SortInputs
  /\ sortOnce = <<>>
  /\ sortTwice = <<>>
  /\ sortStage = 0

SortFirst ==
  /\ sortStage = 0
  /\ sortOnce' \in sortByDistance(sortInput, sortPos)
  /\ sortStage' = 1
  /\ UNCHANGED <<sortPos, sortInput, sortTwice>>
  /\ UNCHANGED <<homeVars, dashVars, openVars, appVars>>

SortSecond ==
  /\ sortStage = 1
  /\ sortTwice' \in sortByDistance(sortOnce, sortPos)
  /\ sortStage' = 2
  /\ UNCHANGED <<sortPos, sortInput, sortOnce>>
  /\ UNCHANGED <<homeVars, dashVars, openVars, appVars>>

NextSort == SortFirst \/ SortSecond

SpecSort == InitSort /\ [][NextSort]_vars

---------------------------------------------------------------------------
\* HomePage isOpen(openTime, closeTime), with the clock reading as input

NullStr == [t |-> "null", s |-> <<>>]

\* !x for a string-or-absent value: undefined, null and "" are falsy
Falsy(x) == x.t # "string" \/ x.s = <<>>

\* String.prototype.split(sep) on a non-empty separator
RECURSIVE SplitFrom(_, _, _)
SplitFrom(chars, sep, acc) ==
  IF chars = <<>>
    THEN << acc >>
    ELSE IF Head(chars) = sep
           THEN << acc >> \o SplitFrom(Tail(chars), sep, <<>>)
           ELSE SplitFrom(Tail(chars), sep, Append(acc, Head(chars)))
split(chars, sep) == SplitFrom(chars, sep, <<>>)

DigitTable ==
  ("0" :> 0) @@ ("1" :> 1) @@ ("2" :> 2) @@ ("3" :> 3) @@ ("4" :> 4) @@
  ("5" :> 5) @@ ("6" :> 6) @@ ("7" :> 7) @@ ("8" :> 8) @@ ("9" :> 9)

RECURSIVE DigitsValue(_, _)
DigitsValue(chars, acc) ==
  IF chars = <<>> THEN acc
  ELSE DigitsValue(Tail(chars), acc * 10 + DigitTable[Head(chars)])

\* Number(str) on strings of digits and letters: "" is 0, a run of digits
\* is its decimal value, anything else is NaN
Number(chars) ==
  IF \A i \in DOMAIN chars : chars[i] \in DOMAIN DigitTable
    THEN Num(DigitsValue(chars, 0))
    ELSE NaN

\* const [h, m] = str.split(":").map(Number); h * 60 + m
\* (a missing second part is undefined, and the sum is then NaN)
MinutesPerHour == 60
HoursMinutes(chars) ==
  LET parts == split(chars, ":")
      h == Number(parts[1])
      m == IF Len(parts) >= 2 THEN Number(parts[2]) ELSE NaN
  IN IF IsNum(h) /\ IsNum(m) THEN Num(h.v * MinutesPerHour + m.v) ELSE NaN

\* 24 * 60
MinutesPerDay == 1440

\* Faulty variant: no overnight branch
isOpen_NoOvernight(open, close, now) ==
  IF Falsy(open) \/ Falsy(close) THEN FALSE
  ELSE LET openMinutes  == HoursMinutes(open.s)
           closeMinutes == HoursMinutes(close.s)
       IN /\ IsNum(openMinutes) /\ IsNum(closeMinutes)
          /\ now >= openMinutes.v /\ now < closeMinutes.v

\* Faulty variant: the close bound is inclusive
isOpen_CloseInclusive(open, close, now) ==
  IF Falsy(open) \/ Falsy(close) THEN FALSE
  ELSE LET openMinutes  == HoursMinutes(open.s)
           closeMinutes == HoursMinutes(close.s)
       IN IF IsNum(openMinutes) /\ IsNum(closeMinutes)
            THEN IF closeMinutes.v < openMinutes.v
                   THEN now >= openMinutes.v \/ now <= closeMinutes.v
                   ELSE now >= openMinutes.v /\ now <= closeMinutes.v
            ELSE FALSE

\* Faulty variant: a listing without hours counts as always open
isOpen_AbsentOpen(open, close, now) ==
  IF Falsy(open) \/ Falsy(close) THEN TRUE
  ELSE LET openMinutes  == HoursMinutes(open.s)
           closeMinutes == HoursMinutes(close.s)
       IN IF IsNum(openMinutes) /\ IsNum(closeMinutes)
            THEN IF closeMinutes.v < openMinutes.v
                   THEN now >= openMinutes.v \/ now < closeMinutes.v
                   ELSE now >= openMinutes.v /\ now < closeMinutes.v
            ELSE FALSE

\* isOpen; now is currentMinutes. Every comparison with NaN is false.
isOpen(open, close, now) ==
  IF Falsy(open) \/ Falsy(close) THEN FALSE
  ELSE
    LET openMinutes == HoursMinutes(open.s)
        closeParsed == HoursMinutes(close.s)
    IN IF IsNum(closeParsed) /\ IsNum(openMinutes)
            /\ closeParsed.v < openMinutes.v
         THEN LET closeMinutes == closeParsed.v + MinutesPerDay
              IN IF now < openMinutes.v
                   THEN \/ now + MinutesPerDay < closeMinutes
                        \/ now < closeMinutes - MinutesPerDay
                   ELSE now >= openMinutes.v /\ now < closeMinutes
         ELSE /\ IsNum(openMinutes) /\ now >= openMinutes.v
              /\ IsNum(closeParsed) /\ now < closeParsed.v

\* openTime / closeTime values of listing documents
TimeValues ==
  { Str(<<"0","0",":","0","0">>), Str(<<"0","2",":","0","0">>),
    Str(<<"0","9",":","0","0">>), Str(<<"1","7",":","0","0">>),
    Str(<<"2","2",":","0","0">>),
    NoStr, NullStr, Str(<<>>),
    Str(<<"2","5",":","0","0">>), Str(<<"9","9",":","9","9">>),
    Str(<<"a","b",":","c","d">>), Str(<<"0","9">>) }

InitOpen ==
  /\ InitHomeVars /\ supported
  /\ InitDashVars
  /\ InitCartVars /\ InitViewVars
  /\ InitSortVars
  /\ openTime \in TimeValues
  /\ closeTime \in TimeValues
  /\ currentMinutes = 0
  /\ isOpenResult = FALSE
  /\ openStage = 0

\* A render evaluates isOpen(r.openTime, r.closeTime) at minute now
CallIsOpen(now) ==
  /\ openStage = 0
  /\ currentMinutes' = now
  /\ isOpenResult' = isOpen(openTime, closeTime, now)
  /\ openStage' = 1
  /\ UNCHANGED <<openTime, closeTime>>
  /\ UNCHANGED <<homeVars, dashVars, sortVars, appVars>>

NextOpen == \E now \in 0..(MinutesPerDay - 1) : CallIsOpen(now)

SpecOpen == InitOpen /\ [][NextOpen]_vars

---------------------------------------------------------------------------
\* DashboardPage / OwnerMap

\* Texts the owner may type in the address field
Addresses == { "Kampala Road", "Acacia Avenue" }

\* First result of the Nominatim search for "<address>, <city>, Uganda":
\* a {lat, lon} pair of decimal strings
NominatimFirst(address) ==
  IF address = "Kampala Road"
    THEN [lat |-> "0.3103", lon |-> "32.5816"]
    ELSE [lat |-> "0.3350", lon |-> "32.5900"]

\* parseFloat on the decimal strings above, in units of 1e-7 degree
parseFloat(str) ==
  CASE str = "0.3103"  -> 3103000
    [] str = "32.5816" -> 325816000
    [] str = "0.3350"  -> 3350000
    [] str = "32.5900" -> 325900000

\* How a lookup may end: fetch / res.json() throws, data is [], data[0] exists
Outcomes == { "reject", "empty", "hit" }

\* Positions Leaflet reports for a drag-end or a click (not yet rounded)
RawLatLngs == { <<3250004, 325700006>>, <<3103000, 325816000>> }

\* parseFloat(x.toFixed(6)) on a coordinate in units of 1e-7 degree
Round6(x) == ((x + 5) \div 10) * 10

\* Faulty variant: the marker and the view follow the props, pinCoords not
SyncEffect_NoReseed(oldF, newF, m, p, v) ==
  IF oldF # newF /\ m # newF
    THEN [marker |-> newF, pin |-> p, view |-> newF, updates |-> 0,
          fired |-> 0]
    ELSE [marker |-> m, pin |-> p, view |-> v, updates |-> 0, fired |-> 0]

\* Faulty variant: re-seeding the pin also reports it through onPinChange
SyncEffect_FiresOnPinChange(oldF, newF, m, p, v) ==
  IF oldF # newF /\ m # newF
    THEN [marker |-> newF, pin |-> newF, view |-> newF, updates |-> 1,
          fired |-> 1]
    ELSE [marker |-> m, pin |-> p, view |-> v, updates |-> 0, fired |-> 0]

\* OwnerMap sync effect (deps [initialLat, initialLng]): runs when a prop
\* changed, and repositions only when the marker is elsewhere; updates
\* counts its setPinCoords call, fired its onPinChange calls (none)
SyncEffect(oldF, newF, m, p, v) ==
  IF oldF # newF /\ m # newF
    THEN [marker |-> newF, pin |-> newF, view |-> newF, updates |-> 1,
          fired |-> 0]
    ELSE [marker |-> m, pin |-> p, view |-> v, updates |-> 0, fired |-> 0]

\* App.js showToast: setToast(msg); setTimeout(() => setToast(null), 2800)
showToast(msg) ==
  /\ toast' = msg
  /\ toastTimer' = TRUE

\* The notice handleGeocode shows after a lookup with a result (its text)
MsgMapUpdated == "Map updated to address"

\* App.js: a timer armed by showToast runs out, setToast(null)
ToastExpire ==
  /\ toastTimer
  /\ toast' = "null"
  /\ toastTimer' = FALSE
  /\ UNCHANGED <<formAddress, formLat, formLng, markerPos, pinCoords,
                 viewCenter, geoInFlight, geoIssued, pinTick, pinEvents,
                 pinSource, lastPin, pinChangeCalls, chainUpdates,
                 recordLoaded, geoUnhandled>>
  /\ UNCHANGED <<homeVars, sortVars, openVars, appVars>>

\* DashboardPage: typing in the address field
EditAddress(a) ==
  /\ a # formAddress
  /\ formAddress' = a
  /\ UNCHANGED <<formLat, formLng, markerPos, pinCoords, viewCenter,
                 geoInFlight, geoIssued, pinTick, pinEvents, pinSource,
                 lastPin, pinChangeCalls, chainUpdates, recordLoaded,
                 geoUnhandled>>
  /\ UNCHANGED <<toast, toastTimer>>
  /\ UNCHANGED <<homeVars, sortVars, openVars, appVars>>

\* DashboardPage handleGeocode up to the first await: the lookup is issued
handleGeocode ==
  /\ formAddress # ""
  /\ geoIssued < MaxLookups
  /\ geoIssued' = geoIssued + 1
  /\ geoInFlight' = geoInFlight \cup
                      { [tag |-> geoIssued + 1, address |-> formAddress] }
  /\ UNCHANGED <<formAddress, formLat, formLng, markerPos, pinCoords,
                 viewCenter, pinTick, pinEvents, pinSource, lastPin,
                 pinChangeCalls, chainUpdates, recordLoaded, geoUnhandled>>
  /\ UNCHANGED <<toast, toastTimer>>
  /\ UNCHANGED <<homeVars, sortVars, openVars, appVars>>

\* Faulty variant: a failed lookup puts the form back on the default place
GeocodeResolve_FailureResets(tag, outcome) ==
  /\ \E r \in geoInFlight : r.tag = tag
  /\ geoInFlight' = { r \in geoInFlight : r.tag # tag }
  /\ LET r    == CHOOSE q \in geoInFlight : q.tag = tag
         res  == NominatimFirst(r.address)
         newF == IF outcome = "hit"
                   THEN <<parseFloat(res.lat), parseFloat(res.lon)>>
                   ELSE <<DefaultLat, DefaultLng>>
         eff  == SyncEffect(<<formLat, formLng>>, newF,
                            markerPos, pinCoords, viewCenter)
     IN /\ formLat' = newF[1]
        /\ formLng' = newF[2]
        /\ markerPos' = eff.marker
        /\ pinCoords' = eff.pin
        /\ viewCenter' = eff.view
        /\ pinChangeCalls' = pinChangeCalls + eff.fired
        /\ chainUpdates' = 1 + eff.updates
  /\ IF outcome = "hit" THEN showToast(MsgMapUpdated)
                        ELSE UNCHANGED <<toast, toastTimer>>
  /\ UNCHANGED <<formAddress, geoIssued, pinTick, pinEvents, pinSource,
                 lastPin, recordLoaded, geoUnhandled>>
  /\ UNCHANGED <<homeVars, sortVars, openVars, appVars>>

\* DashboardPage handleGeocode after the awaits, followed by the re-render
\* of OwnerMap and its sync effect
GeocodeResolve(tag, outcome) ==
  /\ \E r \in geoInFlight : r.tag = tag
  /\ geoInFlight' = { r \in geoInFlight : r.tag # tag }
  /\ IF outcome = "hit"
       THEN LET r    == CHOOSE q \in geoInFlight : q.tag = tag
                res  == NominatimFirst(r.address)
                newF == <<parseFloat(res.lat), parseFloat(res.lon)>>
                eff  == SyncEffect(<<formLat, formLng>>, newF,
                                   markerPos, pinCoords, viewCenter)
            IN /\ formLat' = newF[1]
               /\ formLng' = newF[2]
               /\ markerPos' = eff.marker
               /\ pinCoords' = eff.pin
               /\ viewCenter' = eff.view
               /\ pinChangeCalls' = pinChangeCalls + eff.fired
               /\ chainUpdates' = 1 + eff.updates
               /\ showToast(MsgMapUpdated)
       ELSE UNCHANGED <<formLat, formLng, markerPos, pinCoords, viewCenter,
                        pinChangeCalls, chainUpdates, toast, toastTimer>>
  /\ UNCHANGED <<formAddress, geoIssued, pinTick, pinEvents, pinSource,
                 lastPin, recordLoaded, geoUnhandled>>
  /\ UNCHANGED <<homeVars, sortVars, openVars, appVars>>

\* The object OwnerMap keeps as pinCoords: useState({ lat, lng }),
\* setPinCoords({ lat, lng }); c is the pair the model stores
PinStateObject(c) == [lat |-> c[1], lng |-> c[2]]

\* Faulty variant: updatePin does not call onPinChange
updatePin_NoCallback(latlng) ==
  LET c == <<Round6(latlng[1]), Round6(latlng[2])>>
  IN /\ markerPos' = latlng
     /\ pinCoords' = c
     /\ lastPin' = c
     /\ chainUpdates' = 1
     /\ UNCHANGED <<formLat, formLng, viewCenter, pinChangeCalls>>

\* Faulty variant: the page's onPinChange stores the latitude only
updatePin_LatOnly(latlng) ==
  LET c    == <<Round6(latlng[1]), Round6(latlng[2])>>
      newF == <<c[1], formLng>>
      eff  == SyncEffect(<<formLat, formLng>>, newF, latlng, c, viewCenter)
  IN /\ formLat' = newF[1]
     /\ formLng' = newF[2]
     /\ markerPos' = eff.marker
     /\ pinCoords' = eff.pin
     /\ viewCenter' = eff.view
     /\ lastPin' = c
     /\ pinChangeCalls' = pinChangeCalls + 1 + eff.fired
     /\ chainUpdates' = 2 + eff.updates

\* OwnerMap updatePin(latlng) with the marker already at latlng, then
\* DashboardPage onPinChange and the sync effect of the re-render
updatePin(latlng) ==
  LET c   == <<Round6(latlng[1]), Round6(latlng[2])>>
      eff == SyncEffect(<<formLat, formLng>>, c, latlng, c, viewCenter)
  IN /\ formLat' = c[1]
     /\ formLng' = c[2]
     /\ markerPos' = eff.marker
     /\ pinCoords' = eff.pin
     /\ viewCenter' = eff.view
     /\ lastPin' = c
     /\ pinChangeCalls' = pinChangeCalls + 1 + eff.fired
     /\ chainUpdates' = 2 + eff.updates

\* OwnerMap marker "dragend" handler
DragEnd(latlng) ==
  /\ pinEvents < MaxPinEvents
  /\ updatePin(latlng)
  /\ pinEvents' = pinEvents + 1
  /\ pinSource' = "drag"
  /\ pinTick' = geoIssued
  /\ UNCHANGED <<formAddress, geoInFlight, geoIssued, recordLoaded,
                 geoUnhandled>>
  /\ UNCHANGED <<toast, toastTimer>>
  /\ UNCHANGED <<homeVars, sortVars, openVars, appVars>>

\* OwnerMap map "click" handler: marker.setLatLng(e.latlng); updatePin
MapClick(latlng) ==
  /\ pinEvents < MaxPinEvents
  /\ updatePin(latlng)
  /\ pinEvents' = pinEvents + 1
  /\ pinSource' = "tap"
  /\ pinTick' = geoIssued
  /\ UNCHANGED <<formAddress, geoInFlight, geoIssued, recordLoaded,
                 geoUnhandled>>
  /\ UNCHANGED <<toast, toastTimer>>
  /\ UNCHANGED <<homeVars, sortVars, openVars, appVars>>

\* Coordinates of the owner's stored record: a pair written by an earlier
\* save of a geocoded position, or a record without coordinates
Records == { [lat |-> Num(3250004), lng |-> Num(325700006)],
             [lat |-> Undefined, lng |-> Undefined] }

\* doc.lat || 0.3187 : the default replaces undefined, 0 and NaN
OrDefault(x, default) == IF IsNum(x) /\ x.v # 0 THEN x.v ELSE default

\* DashboardPage load effect: getOwnerRestaurants resolves with a record and
\* populateForm(docs[0]) replaces the form; then the re-render of OwnerMap
\* and its sync effect
populateForm(doc) ==
  /\ ~recordLoaded
  /\ recordLoaded' = TRUE
  /\ LET newF == <<OrDefault(doc.lat, DefaultLat),
                   OrDefault(doc.lng, DefaultLng)>>
         eff  == SyncEffect(<<formLat, formLng>>, newF,
                            markerPos, pinCoords, viewCenter)
     IN /\ formLat' = newF[1]
        /\ formLng' = newF[2]
        /\ markerPos' = eff.marker
        /\ pinCoords' = eff.pin
        /\ viewCenter' = eff.view
        /\ pinChangeCalls' = pinChangeCalls + eff.fired
        /\ chainUpdates' = 1 + eff.updates
  /\ UNCHANGED <<formAddress, geoInFlight, geoIssued, pinTick, pinEvents,
                 pinSource, lastPin, geoUnhandled>>
  /\ UNCHANGED <<toast, toastTimer>>
  /\ UNCHANGED <<homeVars, sortVars, openVars, appVars>>

NextDash ==
  \/ \E a \in Addresses : EditAddress(a)
  \/ handleGeocode
  \/ \E tag \in 1..MaxLookups, o \in Outcomes : GeocodeResolve(tag, o)
  \/ \E ll \in RawLatLngs : DragEnd(ll)
  \/ \E ll \in RawLatLngs : MapClick(ll)

SpecDash == Init /\ [][NextDash]_vars

\* The address lookups together with the notice the application shows
NextNotice ==
  \/ \E a \in Addresses : EditAddress(a)
  \/ handleGeocode
  \/ \E tag \in 1..MaxLookups, o \in Outcomes : GeocodeResolve(tag, o)
  \/ \E ll \in RawLatLngs : DragEnd(ll)
  \/ \E ll \in RawLatLngs : MapClick(ll)
  \/ ToastExpire

SpecNotice == Init /\ [][NextNotice]_vars

\* The editable pin with every source of coordinates: the lookups, the
\* drag-end and tap handlers and the loaded record
NextPin ==
  \/ \E a \in Addresses : EditAddress(a)
  \/ handleGeocode
  \/ \E tag \in 1..MaxLookups, o \in Outcomes : GeocodeResolve(tag, o)
  \/ \E ll \in RawLatLngs : DragEnd(ll)
  \/ \E ll \in RawLatLngs : MapClick(ll)
  \/ \E doc \in Records : populateForm(doc)

SpecPin == Init /\ [][NextPin]_vars

----------------------------------------------------------------------------
\* App.js: routing, cart and booking; BookingModal.js: handleSubmit

\* Listings the visitor opens or books, and menu items they add
RestaurantIds == { "A", "B" }
ItemNames     == { "Pilau", "Matoke" }

\* The pages are covered by the modal while it is shown
\* (position: fixed, inset: 0, zIndex 200 above the nav's 100)
PageReachable == ~(bookingOpen /\ bookingRestaurant # "null")

\* Faulty variant: opening another listing keeps the cart
goDetail_KeepsCart(r) ==
  /\ PageReachable
  /\ page = "home"
  /\ selectedRestaurant' = r
  /\ page' = "detail"
  /\ UNCHANGED <<cart, cartRestaurantId, bookingOpen, bookingRestaurant,
                 bookingId, modalError, lastBooking>>
  /\ UNCHANGED <<homeVars, dashVars, sortVars, openVars, viewVars>>

\* App.js goDetail, called by a HomePage card or map popup
goDetail(r) ==
  /\ PageReachable
  /\ page = "home"
  /\ IF cartRestaurantId # "null" /\ cartRestaurantId # r
       THEN cart' = {} /\ cartRestaurantId' = "null"
       ELSE UNCHANGED <<cart, cartRestaurantId>>
  /\ selectedRestaurant' = r
  /\ page' = "detail"
  /\ UNCHANGED <<bookingOpen, bookingRestaurant, bookingId, modalError,
                 lastBooking>>
  /\ UNCHANGED <<homeVars, dashVars, sortVars, openVars, viewVars>>

\* App.js goHome, called by the back buttons and the nav's Explore tab
goHome ==
  /\ PageReachable
  /\ page' = "home"
  /\ selectedRestaurant' = "null"
  /\ UNCHANGED <<cart, cartRestaurantId, bookingOpen, bookingRestaurant,
                 bookingId, modalError, lastBooking>>
  /\ UNCHANGED <<homeVars, dashVars, sortVars, openVars, viewVars>>

\* App.js nav, Owner tab: setPage("dashboard")
navOwner ==
  /\ PageReachable
  /\ page' = "dashboard"
  /\ UNCHANGED <<selectedRestaurant, cart, cartRestaurantId, bookingOpen,
                 bookingRestaurant, bookingId, modalError, lastBooking>>
  /\ UNCHANGED <<homeVars, dashVars, sortVars, openVars, viewVars>>

\* The functional update of addToCart applied to the entries prev; each
\* entry carries, as history, the restaurants it was added from
AddEntry(prev, item, restaurantId) ==
  IF \E e \in prev : e.name = item
    THEN { IF e.name = item
             THEN [e EXCEPT !.qty = @ + 1, !.from = @ \cup { restaurantId }]
             ELSE e : e \in prev }
    ELSE prev \cup { [name |-> item, qty |-> 1, from |-> { restaurantId }] }

\* App.js addToCart(item, selectedRestaurant.id), from the DetailPage menu
addToCart(item) ==
  /\ PageReachable
  /\ page = "detail"
  /\ selectedRestaurant # "null"
  /\ \A e \in cart : e.qty < MaxQty
  /\ LET restaurantId == selectedRestaurant
         prev == IF cartRestaurantId # "null"
                    /\ cartRestaurantId # restaurantId
                   THEN {}
                   ELSE cart
     IN /\ cartRestaurantId' = restaurantId
        /\ cart' = AddEntry(prev, item, restaurantId)
  /\ UNCHANGED <<page, selectedRestaurant, bookingOpen, bookingRestaurant,
                 bookingId, modalError, lastBooking>>
  /\ UNCHANGED <<homeVars, dashVars, sortVars, openVars, viewVars>>

\* App.js openBooking
openBooking(restaurant) ==
  /\ bookingRestaurant' = restaurant
  /\ bookingOpen' = TRUE
  /\ UNCHANGED <<page, selectedRestaurant, cart, cartRestaurantId, bookingId,
                 modalError, lastBooking>>

\* HomePage card, Book button: onBook(r)
HomeBook(r) ==
  /\ PageReachable
  /\ page = "home"
  /\ openBooking(r)
  /\ UNCHANGED <<homeVars, dashVars, sortVars, openVars, viewVars>>

\* DetailPage booking buttons: openBooking(selectedRestaurant)
DetailBook ==
  /\ PageReachable
  /\ page = "detail"
  /\ selectedRestaurant # "null"
  /\ openBooking(selectedRestaurant)
  /\ UNCHANGED <<homeVars, dashVars, sortVars, openVars, viewVars>>

\* BookingModal.js: Object.values(cart).reduce((s, i) => s + i.qty, 0)
RECURSIVE cartCount(_)
cartCount(c) ==
  IF c = {} THEN 0
  ELSE LET e == CHOOSE x \in c : TRUE
       IN e.qty + cartCount(c \ { e })

\* BookingModal.js handleSubmit; filled: name and phone are both given,
\* stored: createBooking resolves
handleSubmit(filled, stored) ==
  /\ bookingOpen
  /\ bookingRestaurant # "null"
  /\ ~bookingId
  /\ IF filled /\ stored
       THEN /\ lastBooking' =
                 [t |-> "booking", restaurantId |-> bookingRestaurant,
                  preOrder |-> IF cartCount(cart) > 0 THEN cart ELSE {}]
            /\ bookingId' = TRUE
            /\ modalError' = FALSE
       ELSE /\ modalError' = TRUE
            /\ UNCHANGED <<lastBooking, bookingId>>
  /\ UNCHANGED <<page, selectedRestaurant, cart, cartRestaurantId,
                 bookingOpen, bookingRestaurant>>
  /\ UNCHANGED <<homeVars, dashVars, sortVars, openVars, viewVars>>

\* App.js closeBooking (Done, Cancel, tap on the backdrop): the modal is
\* unmounted and clearCart runs
closeBooking ==
  /\ bookingOpen
  /\ bookingRestaurant # "null"
  /\ bookingOpen' = FALSE
  /\ cart' = {}
  /\ cartRestaurantId' = "null"
  /\ bookingId' = FALSE
  /\ modalError' = FALSE
  /\ UNCHANGED <<page, selectedRestaurant, bookingRestaurant, lastBooking>>
  /\ UNCHANGED <<homeVars, dashVars, sortVars, openVars, viewVars>>

NextCart ==
  \/ \E r \in RestaurantIds : goDetail(r)
  \/ goHome
  \/ navOwner
  \/ \E item \in ItemNames : addToCart(item)
  \/ \E r \in RestaurantIds : HomeBook(r)
  \/ DetailBook
  \/ \E filled, stored \in BOOLEAN : handleSubmit(filled, stored)
  \/ closeBooking

SpecCart == Init /\ [][NextCart]_vars

----------------------------------------------------------------------------
\* MapComponents.js: the L.map instance of each map component

\* Listings given to the map components: on the equator (lat 0), two
\* with non-zero coordinates, one without coordinates
MapListings ==
  { [id |-> "Z", lat |-> Num(0), lng |-> Num(325840000)],
    [id |-> "N", lat |-> Num(3103000), lng |-> Num(325816000)],
    [id |-> "M", lat |-> Num(3250000), lng |-> Num(325700000)],
    [id |-> "U", lat |-> Undefined, lng |-> Undefined] }

\* Stored records the owner editor loads: one on the equator, one not
EditorRecords ==
  { [lat |-> r.lat, lng |-> r.lng] :
      r \in { x \in MapListings : x.id \in { "Z", "N" } } }

\* The restaurants prop of DinerMap
BrowseLists == { <<r>> : r \in MapListings }

\* x && ... on a coordinate: undefined, NaN and 0 are falsy
Truthy(x) == IsNum(x) /\ x.v # 0

\* Faulty variant: the cleanup forgets map.remove()
RemoveMap_Leaks(ws, id) == ws

\* map.remove(): the instance, its layers and its handlers are gone
RemoveMap(ws, id) == { w \in ws : w.id # id }

\* The instances, refs and pending cleanups as one record
Now == [ws |-> widgets, obj |-> mapObj, cl |-> cleanupOf, n |-> created]

\* The cleanup an init effect returned: () => { map.remove();
\* mapObj.current = null; }, if the effect returned one
Cleanup(v, st) ==
  IF st.cl[v] = 0 THEN st
  ELSE [st EXCEPT !.ws = RemoveMap(@, st.cl[v]),
                  !.obj = [@ EXCEPT ![v] = 0],
                  !.cl = [@ EXCEPT ![v] = 0]]

\* The init effect of component v: returns at once when a map is held or
\* (ReadOnlyMap) a coordinate is falsy, else creates the map, stores it in
\* mapObj.current and returns its cleanup
InitEffect(v, may, st) ==
  IF st.obj[v] # 0 \/ ~may
    THEN [st EXCEPT !.cl = [@ EXCEPT ![v] = 0]]
    ELSE [ws  |-> st.ws \cup { [id |-> st.n + 1, view |-> v] },
          obj |-> [st.obj EXCEPT ![v] = st.n + 1],
          cl  |-> [st.cl EXCEPT ![v] = st.n + 1],
          n   |-> st.n + 1]

Commit(st) ==
  /\ widgets' = st.ws
  /\ mapObj' = st.obj
  /\ cleanupOf' = st.cl
  /\ created' = st.n

\* HomePage renders DinerMap: init effect, then the pins effect
MountDinerMap(rs) ==
  /\ ~mounted["browse"]
  /\ created < MaxWidgets
  /\ mounted' = [mounted EXCEPT !["browse"] = TRUE]
  /\ Commit(InitEffect("browse", TRUE, Now))
  /\ browseProps' = rs
  /\ browseMarkers' = NewMarkers(rs)
  /\ UNCHANGED <<eventWidget, orphanEvent, detailListing, showMap, roMarkers,
                 roZoom, roCenter>>
  /\ UNCHANGED <<homeVars, dashVars, sortVars, openVars, cartVars>>

\* HomePage leaves the screen: DinerMap's cleanup runs
UnmountDinerMap ==
  /\ mounted["browse"]
  /\ mounted' = [mounted EXCEPT !["browse"] = FALSE]
  /\ Commit(Cleanup("browse", Now))
  /\ browseProps' = <<>>
  /\ browseMarkers' = <<>>
  /\ UNCHANGED <<eventWidget, orphanEvent, detailListing, showMap, roMarkers,
                 roZoom, roCenter>>
  /\ UNCHANGED <<homeVars, dashVars, sortVars, openVars, cartVars>>

\* DashboardPage renders OwnerMap: init effect
MountOwnerMap ==
  /\ ~mounted["pin"]
  /\ created < MaxWidgets
  /\ mounted' = [mounted EXCEPT !["pin"] = TRUE]
  /\ Commit(InitEffect("pin", TRUE, Now))
  /\ UNCHANGED <<eventWidget, orphanEvent, browseProps, browseMarkers,
                 detailListing, showMap, roMarkers, roZoom, roCenter>>
  /\ UNCHANGED <<homeVars, dashVars, sortVars, openVars, cartVars>>

\* DashboardPage leaves the screen: OwnerMap's cleanup runs
UnmountOwnerMap ==
  /\ mounted["pin"]
  /\ mounted' = [mounted EXCEPT !["pin"] = FALSE]
  /\ Commit(Cleanup("pin", Now))
  /\ UNCHANGED <<eventWidget, orphanEvent, browseProps, browseMarkers,
                 detailListing, showMap, roMarkers, roZoom, roCenter>>
  /\ UNCHANGED <<homeVars, dashVars, sortVars, openVars, cartVars>>

\* A handler the code registered on a live map runs: a marker's click
\* (DinerMap), the marker's dragend or the map's click (OwnerMap)
WidgetEvent(id) ==
  /\ \E w \in widgets : w.id = id /\ w.view \in { "browse", "pin" }
  /\ LET w == CHOOSE x \in widgets : x.id = id
     IN orphanEvent' = (orphanEvent \/ ~mounted[w.view]
                          \/ mapObj[w.view] # id)
  /\ eventWidget' = id
  /\ UNCHANGED <<widgets, created, mounted, mapObj, cleanupOf, browseProps,
                 browseMarkers, detailListing, showMap, roMarkers, roZoom,
                 roCenter>>
  /\ UNCHANGED <<homeVars, dashVars, sortVars, openVars, cartVars>>

\* DetailPage: the map block is rendered, {r.lat && r.lng && (...)}
MapBlockShown(r) == Truthy(r.lat) /\ Truthy(r.lng)

\* ReadOnlyMap: zoom of the L.map call
ReadOnlyZoom == 15

\* ReadOnlyMap: the interaction handlers of its map after L.map(el,
\* { dragging: false, scrollWheelZoom: false, doubleClickZoom: false,
\* touchZoom: false }); a handler the options do not name stays enabled
ReadOnlyOptions ==
  [dragging |-> FALSE, scrollWheelZoom |-> FALSE, doubleClickZoom |-> FALSE,
   touchZoom |-> FALSE, boxZoom |-> TRUE, keyboard |-> TRUE]

\* The map ReadOnlyMap shows after its effect ran for (lat, lng); st is
\* the bookkeeping after the effect, fresh says that a map was created
ReadOnlyPaint(r, st, fresh) ==
  IF st.obj["readonly"] = 0
    THEN roMarkers' = {} /\ roZoom' = 0 /\ roCenter' = <<0, 0>>
    ELSE IF fresh
      THEN /\ roMarkers' = { <<r.lat.v, r.lng.v>> }
           /\ roZoom' = ReadOnlyZoom
           /\ roCenter' = <<r.lat.v, r.lng.v>>
      ELSE UNCHANGED <<roMarkers, roZoom, roCenter>>

\* App renders DetailPage for a restaurant
OpenDetail(r) ==
  /\ detailListing = NoListing
  /\ detailListing' = r
  /\ showMap' = FALSE
  /\ UNCHANGED <<widgets, created, mounted, mapObj, cleanupOf, eventWidget,
                 orphanEvent, browseProps, browseMarkers, roMarkers, roZoom,
                 roCenter>>
  /\ UNCHANGED <<homeVars, dashVars, sortVars, openVars, cartVars>>

\* DetailPage map toggle, setShowMap(true): ReadOnlyMap mounts
ShowMap ==
  /\ detailListing # NoListing
  /\ MapBlockShown(detailListing)
  /\ ~showMap
  /\ created < MaxWidgets
  /\ showMap' = TRUE
  /\ mounted' = [mounted EXCEPT !["readonly"] = TRUE]
  /\ LET st == InitEffect("readonly",
                          Truthy(detailListing.lat)
                            /\ Truthy(detailListing.lng), Now)
     IN Commit(st) /\ ReadOnlyPaint(detailListing, st, st.n > created)
  /\ UNCHANGED <<eventWidget, orphanEvent, browseProps, browseMarkers,
                 detailListing>>
  /\ UNCHANGED <<homeVars, dashVars, sortVars, openVars, cartVars>>

\* DetailPage map toggle, setShowMap(false): ReadOnlyMap unmounts
HideMap ==
  /\ detailListing # NoListing
  /\ MapBlockShown(detailListing)
  /\ showMap
  /\ showMap' = FALSE
  /\ mounted' = [mounted EXCEPT !["readonly"] = FALSE]
  /\ LET st == Cleanup("readonly", Now)
     IN Commit(st) /\ ReadOnlyPaint(detailListing, st, FALSE)
  /\ UNCHANGED <<eventWidget, orphanEvent, browseProps, browseMarkers,
                 detailListing>>
  /\ UNCHANGED <<homeVars, dashVars, sortVars, openVars, cartVars>>

\* DetailPage re-rendered with another restaurant prop: ReadOnlyMap
\* unmounts when the map block disappears, mounts when it appears with
\* showMap set, and re-runs its effect (cleanup first) when lat or lng
\* changed
DetailRerender(r) ==
  /\ detailListing # NoListing
  /\ r # detailListing
  /\ created < MaxWidgets
  /\ detailListing' = r
  /\ LET was  == mounted["readonly"]
         will == showMap /\ MapBlockShown(r)
         deps == r.lat # detailListing.lat \/ r.lng # detailListing.lng
         st1  == IF was /\ (~will \/ deps)
                   THEN Cleanup("readonly", Now) ELSE Now
         st2  == IF will /\ (~was \/ deps)
                   THEN InitEffect("readonly",
                                   Truthy(r.lat) /\ Truthy(r.lng), st1)
                   ELSE st1
     IN /\ mounted' = [mounted EXCEPT !["readonly"] = will]
        /\ Commit(st2)
        /\ ReadOnlyPaint(r, st2, st2.n > created)
  /\ UNCHANGED <<eventWidget, orphanEvent, browseProps, browseMarkers,
                 showMap>>
  /\ UNCHANGED <<homeVars, dashVars, sortVars, openVars, cartVars>>

\* App leaves the detail page: DetailPage and its ReadOnlyMap unmount
CloseDetail ==
  /\ detailListing # NoListing
  /\ detailListing' = NoListing
  /\ showMap' = FALSE
  /\ mounted' = [mounted EXCEPT !["readonly"] = FALSE]
  /\ LET st == Cleanup("readonly", Now)
     IN Commit(st) /\ ReadOnlyPaint(detailListing, st, FALSE)
  /\ UNCHANGED <<eventWidget, orphanEvent, browseProps, browseMarkers>>
  /\ UNCHANGED <<homeVars, dashVars, sortVars, openVars, cartVars>>

\* What the visitor does on the map, and the handler that serves it
GestureHandler ==
  [drag |-> "dragging", wheel |-> "scrollWheelZoom",
   dblclick |-> "doubleClickZoom", pinch |-> "touchZoom",
   shiftdrag |-> "boxZoom", zoomkey |-> "keyboard"]

\* A gesture on ReadOnlyMap's live map, served only by an enabled
\* handler: a drag pans by step, the others zoom by step
ReadOnlyGesture(g, step) ==
  /\ mapObj["readonly"] # 0
  /\ \E w \in widgets : w.id = mapObj["readonly"]
  /\ ReadOnlyOptions[GestureHandler[g]]
  /\ IF g = "drag"
       THEN /\ roCenter' = <<roCenter[1] + step, roCenter[2]>>
            /\ \A m \in roMarkers :
                 /\ roCenter'[1] - m[1] <= MaxZoomSteps
                 /\ m[1] - roCenter'[1] <= MaxZoomSteps
            /\ UNCHANGED roZoom
       ELSE /\ roZoom' = roZoom + step
            /\ roZoom' - ReadOnlyZoom <= MaxZoomSteps
            /\ ReadOnlyZoom - roZoom' <= MaxZoomSteps
            /\ UNCHANGED roCenter
  /\ UNCHANGED <<widgets, created, mounted, mapObj, cleanupOf, eventWidget,
                 orphanEvent, browseProps, browseMarkers, detailListing,
                 showMap, roMarkers>>
  /\ UNCHANGED <<homeVars, dashVars, sortVars, openVars, cartVars>>

\* The three map components mounted, unmounted and re-rendered in any order
NextViews ==
  \/ \E rs \in BrowseLists : MountDinerMap(rs)
  \/ UnmountDinerMap
  \/ MountOwnerMap
  \/ UnmountOwnerMap
  \/ \E id \in 1..MaxWidgets : WidgetEvent(id)
  \/ \E r \in MapListings : OpenDetail(r)
  \/ ShowMap
  \/ HideMap
  \/ \E r \in MapListings : DetailRerender(r)
  \/ CloseDetail
  \/ \E g \in DOMAIN GestureHandler, step \in { -1, 1 } : ReadOnlyGesture(g, step)
  \/ \E doc \in EditorRecords : populateForm(doc)

SpecViews == Init /\ [][NextViews]_vars

---------------------------------------------------------------------------
\* Properties

Superseded(tag) == tag < geoIssued

\* C1: the result of a geocode lookup that was superseded by a later lookup
\* is discarded: resolving it never changes the page's lat/lng.
C1_SupersededDiscarded ==
  [][\A tag \in 1..MaxLookups, o \in Outcomes :
       (GeocodeResolve(tag, o) /\ Superseded(tag))
         => (formLat' = formLat /\ formLng' = formLng)]_vars

\* C2: while no lookup has been issued since the last drag-end / tap, the
\* page's lat/lng and the marker are at the dragged / tapped position, no
\* matter which earlier lookups resolve.
C2_PinNotOverwritten ==
  (pinEvents > 0 /\ pinTick = geoIssued)
    => /\ <<formLat, formLng>> = lastPin
       /\ <<Round6(markerPos[1]), Round6(markerPos[2])>> = lastPin

\* C3: the position service is in exactly one of idle, requesting, active,
\* error: never active and in error at once, never active or in error while
\* requesting, and active exactly when a fix is stored.
C3_ExclusiveStates ==
  /\ ~(gpsActive /\ gpsError # "null")
  /\ ~(gpsLoading /\ (gpsActive \/ gpsError # "null"))
  /\ (gpsActive <=> coords # NullCoords)

\* C4: after clearGPS and until the next requestGPS the service is idle: no
\* stored fix, not active, not requesting, no error.
C4_IdleAfterClear ==
  sinceClear => /\ coords = NullCoords
                /\ ~gpsActive
                /\ ~gpsLoading
                /\ gpsError = "null"

\* C5: a failed position request leaves the stored position, the active
\* flag and the displayed ranking as they were, sets an error message and
\* ends the requesting state.
C5_FailureKeepsPosition ==
  [][\A code \in ErrCodes :
       GPSError(code)
         => /\ coords' = coords
            /\ gpsActive' = gpsActive
            /\ displayed' = displayed
            /\ gpsError' \in {MsgDenied, MsgUnavailable, MsgTimeout}
            /\ ~gpsLoading']_vars

\* C5 witness: a request failed while a fix was stored, and the fix is kept
C5_Witness ==
  /\ gpsError \in {MsgDenied, MsgUnavailable, MsgTimeout}
  /\ gpsActive
  /\ coords \in Fixes
  /\ Len(displayed) >= 2

\* C6: every reported failure is one of PermissionDenied, PositionUnavailable,
\* Timeout, Unsupported; Unsupported is reported without entering the
\* requesting state and without a request having been issued.
C6_ErrorKinds ==
  /\ gpsError \in {"null", MsgDenied, MsgUnavailable, MsgTimeout, MsgUnsupported}
  /\ gpsError = MsgUnsupported => (~gpsLoading /\ gpsPending = 0)
  /\ gpsError \in {MsgDenied, MsgUnavailable, MsgTimeout} => supported

\* C6 witness: a timeout has been reported
C6_Witness == gpsError = MsgTimeout /\ ~gpsLoading

\* C7: the loading flag is true exactly while a position request is in flight
C7_LoadingIffInFlight == gpsLoading <=> (gpsPending > 0)

HasCoords(item) == IsNum(item.lat) /\ IsNum(item.lng)

\* The filter output for the current criteria and collection
FilteredNow ==
  filtered(restaurants, selectedDistrict, selectedCat, searchQuery)

\* Position of the listing with the given id in a collection
IndexOf(list, id) == CHOOSE i \in DOMAIN list : list[i].id = id

\* C8: with an active position, sortByDistance puts every listing without
\* lat or lng after all listings with coordinates, leaves it without a
\* distance annotation, and keeps such listings in their input order.
C8_NoCoordsLast ==
  gpsActive =>
    LET input == FilteredNow
    IN \A out \in sortByDistance(input, coords) :
         /\ \A i, j \in DOMAIN out :
              (~HasCoords(out[i]) /\ HasCoords(out[j])) => j < i
         /\ \A i \in DOMAIN out :
              ~HasCoords(out[i]) => out[i].distance = Undefined
         /\ \A i, j \in DOMAIN out :
              (i < j /\ ~HasCoords(out[i]) /\ ~HasCoords(out[j]))
                => IndexOf(input, out[i].id) < IndexOf(input, out[j].id)

\* C9: a displayed listing carries a distance annotation if and only if a
\* position is active and the listing has both lat and lng.
C9_AnnotationIff ==
  \A i \in DOMAIN displayed :
    (displayed[i].distance # Undefined)
      <=> (gpsActive /\ HasCoords(displayed[i]))

Count(list, id) == Cardinality({ i \in DOMAIN list : list[i].id = id })

\* C10: for every position state, every result of sortByDistance holds
\* exactly the listings of its input, each id as often as in the input.
C10_Membership ==
  LET input == FilteredNow
  IN \A c \in Fixes \cup {NullCoords} :
       \A out \in sortByDistance(input, c) :
         /\ Len(out) = Len(input)
         /\ \A i \in DOMAIN input :
              Count(out, input[i].id) = Count(input, input[i].id)

\* C10 witness: the sort reordered a collection holding a listing without
\* coordinates
C10_Witness ==
  /\ gpsActive
  /\ Len(displayed) >= 2
  /\ \E i \in DOMAIN displayed : ~HasCoords(displayed[i])
  /\ \E i \in DOMAIN displayed : displayed[i].id # FilteredNow[i].id

\* C11: sortByDistance is idempotent: applied to its own result, under the
\* same position state, it returns that result again (order and annotations).
C11_Idempotent == sortStage = 2 => sortTwice = sortOnce

\* The rounded distance of a listing from a position, as sortByDistance
\* computes it
DistanceFrom(c, item) == RoundKm(haversine(c.lat, c.lng, item.lat, item.lng))

\* C12: with a position, the listings that have coordinates appear in the
\* result in non-decreasing order of rounded distance, each annotated with
\* its distance.
C12_AscendingDistance ==
  (sortStage >= 1 /\ sortPos # NullCoords) =>
    /\ \A i \in DOMAIN sortOnce :
         HasCoords(sortOnce[i])
           => sortOnce[i].distance = DistanceFrom(sortPos, sortOnce[i])
    /\ \A i, j \in DOMAIN sortOnce :
         (i < j /\ HasCoords(sortOnce[i]) /\ HasCoords(sortOnce[j]))
           => DistanceFrom(sortPos, sortOnce[i]).v
                <= DistanceFrom(sortPos, sortOnce[j]).v

\* C13: without a position sortByDistance returns its input: same listings,
\* same order, no distance annotation.
C13_IdentityWithoutPosition ==
  (sortStage >= 1 /\ sortPos = NullCoords) =>
    /\ sortOnce = sortInput
    /\ \A i \in DOMAIN sortOnce : sortOnce[i].distance = Undefined

\* C13 witness: the helper was called without a position on a list of
\* several listings, some with coordinates
C13_Witness ==
  /\ sortStage >= 1
  /\ sortPos = NullCoords
  /\ Len(sortInput) >= 2
  /\ \E i \in DOMAIN sortOnce : HasCoords(sortOnce[i])

\* A well-formed "HH:MM": two digits, colon, two digits, 00-23 and 00-59
WellFormed(x) ==
  /\ x.t = "string"
  /\ Len(x.s) = 5
  /\ x.s[3] = ":"
  /\ \A i \in {1, 2, 4, 5} : x.s[i] \in DOMAIN DigitTable
  /\ DigitTable[x.s[1]] * 10 + DigitTable[x.s[2]] <= 23
  /\ DigitTable[x.s[4]] * 10 + DigitTable[x.s[5]] <= 59

\* Minute of the day a well-formed "HH:MM" denotes
ClockMinutes(x) ==
  (DigitTable[x.s[1]] * 10 + DigitTable[x.s[2]]) * 60
    + DigitTable[x.s[4]] * 10 + DigitTable[x.s[5]]

\* C14: for an overnight window (close < open, both well-formed) isOpen is
\* true at minute now exactly when now >= open or now < close.
C14_OvernightWindow ==
  (openStage = 1 /\ WellFormed(openTime) /\ WellFormed(closeTime)
     /\ ClockMinutes(closeTime) < ClockMinutes(openTime))
    => (isOpenResult <=> (\/ currentMinutes >= ClockMinutes(openTime)
                          \/ currentMinutes < ClockMinutes(closeTime)))

\* C14 witness: 22:00-02:00 evaluated at 01:00 is open
C14_Witness ==
  /\ openStage = 1
  /\ openTime = Str(<<"2","2",":","0","0">>)
  /\ closeTime = Str(<<"0","2",":","0","0">>)
  /\ currentMinutes = 60
  /\ isOpenResult

\* C15: for a same-day window (open <= close, both well-formed) isOpen is
\* true at minute now exactly when open <= now < close.
C15_SameDayWindow ==
  (openStage = 1 /\ WellFormed(openTime) /\ WellFormed(closeTime)
     /\ ClockMinutes(openTime) <= ClockMinutes(closeTime))
    => (isOpenResult <=> (/\ ClockMinutes(openTime) <= currentMinutes
                          /\ currentMinutes < ClockMinutes(closeTime)))

\* C15 witness: 09:00-17:00 evaluated at 17:00 is closed
C15_Witness ==
  /\ openStage = 1
  /\ openTime = Str(<<"0","9",":","0","0">>)
  /\ closeTime = Str(<<"1","7",":","0","0">>)
  /\ currentMinutes = 1020
  /\ ~isOpenResult

\* A bound that is undefined, null or the empty string
Absent(x) == x.t = "undefined" \/ x.t = "null" \/ (x.t = "string" /\ x.s = <<>>)

\* C16: isOpen is false at every moment when the open bound, the close
\* bound or both are absent.
C16_AbsentBoundClosed ==
  (openStage = 1 /\ (Absent(openTime) \/ Absent(closeTime))) => ~isOpenResult

\* C16 witness: a well-formed open bound with a null close bound, evaluated
\* inside what would be the opening hours
C16_Witness ==
  /\ openStage = 1
  /\ openTime = Str(<<"0","9",":","0","0">>)
  /\ closeTime = NullStr
  /\ currentMinutes = 600

\* A time string that is present but not a well-formed "HH:MM"
Malformed(x) == ~Absent(x) /\ ~WellFormed(x)

\* C17: when the open or the close string is malformed, isOpen is false at
\* every moment of the day.
C17_MalformedClosed ==
  (openStage = 1 /\ (Malformed(openTime) \/ Malformed(closeTime)))
    => ~isOpenResult

\* The listing with the given id is in the displayed collection
Shown(id) == \E j \in DOMAIN displayed : displayed[j].id = id

\* The query, compared without regard to letter case, occurs in the name,
\* the city, the address or a category token of the listing
CaseInsensitiveMatch(r, query) ==
  LET q == toLowerCase(query)
  IN \/ includes(toLowerCase(OrEmpty(r.name)), q)
     \/ includes(toLowerCase(OrEmpty(r.city)), q)
     \/ includes(toLowerCase(OrEmpty(r.address)), q)
     \/ \E i \in DOMAIN OrEmptyArr(r.categories) :
           includes(toLowerCase(OrEmptyArr(r.categories)[i]), q)

\* C18: with a non-empty query (and no district or category constraint) a
\* listing is shown exactly when the query is a case-insensitive substring
\* of its name, city, address or one of its category tokens.
C18_TextCaseInsensitive ==
  (~loading /\ ~gpsActive /\ selectedDistrict = AllDistricts
     /\ selectedCat = CatAll /\ searchQuery # <<>>)
    => \A i \in DOMAIN restaurants :
         Shown(restaurants[i].id)
           <=> CaseInsensitiveMatch(restaurants[i], searchQuery)

\* C19: the filter output is exactly the listings, in input order, whose
\* city equals the district (or the district is "All Districts"), whose
\* categories contain the category (or the category is "all") and which
\* pass the text predicate (empty query, or a case-insensitive match on
\* name, city, address or a category token); absent fields count as empty.
C19_FilterSubsequence ==
  (~loading /\ ~gpsActive) =>
    LET pass(r) ==
          /\ \/ selectedDistrict = AllDistricts
             \/ (r.city.t = "string" /\ r.city.s = selectedDistrict)
          /\ \/ selectedCat = CatAll
             \/ (r.categories.t = "array"
                   /\ \E k \in DOMAIN r.categories.a :
                        r.categories.a[k] = selectedCat)
          /\ \/ searchQuery = <<>>
             \/ CaseInsensitiveMatch(r, searchQuery)
    IN /\ \A i \in DOMAIN restaurants :
            Shown(restaurants[i].id) <=> pass(restaurants[i])
       /\ Len(displayed)
            = Cardinality({ i \in DOMAIN restaurants : pass(restaurants[i]) })
       /\ \A j, k \in DOMAIN displayed :
            j < k => IndexOf(restaurants, displayed[j].id)
                       < IndexOf(restaurants, displayed[k].id)
       /\ \A j \in DOMAIN displayed :
            displayed[j]
              = Raw(restaurants[IndexOf(restaurants, displayed[j].id)])

\* C20: with district "All Districts", category "all" and an empty query
\* the filter output equals the collection, in membership and order.
C20_DefaultCriteriaIdentity ==
  (~loading /\ ~gpsActive /\ selectedDistrict = AllDistricts
     /\ selectedCat = CatAll /\ searchQuery = <<>>)
    => /\ Len(displayed) = Len(restaurants)
       /\ \A i \in DOMAIN restaurants : displayed[i] = Raw(restaurants[i])

\* C20 witness: default criteria over a collection of several listings, one
\* of them with absent optional fields
C20_Witness ==
  /\ ~loading
  /\ selectedDistrict = AllDistricts
  /\ selectedCat = CatAll
  /\ searchQuery = <<>>
  /\ Len(displayed) >= 2
  /\ \E i \in DOMAIN displayed : displayed[i].categories.t = "undefined"

\* The ids of a collection
Ids(list) == { list[i].id : i \in DOMAIN list }

\* C21: in every state the collection shown in the list, which is the one
\* passed to the browse map, has exactly the members of the filter output
\* for the current criteria and collection, with or without a position.
C21_FilterBeforeSort ==
  ~loading =>
    LET input == FilteredNow
    IN /\ Ids(displayed) = Ids(input)
       /\ Len(displayed) = Len(input)
       /\ ~fetchError => mapRestaurants = displayed

\* C21 witness: a position is active, a district is selected, and the
\* sorted collection on the map is a proper, non-empty part of the listings
C21_Witness ==
  /\ gpsActive
  /\ selectedDistrict # AllDistricts
  /\ Len(displayed) >= 1
  /\ Len(displayed) < Len(restaurants)
  /\ mapRestaurants = displayed

\* C22: a listing without lat or lng has no marker on the browse map, and
\* is in the displayed list whenever it passes the filter.
C22_NoCoordsOffMapInList ==
  ~loading =>
    LET input == FilteredNow
    IN /\ \A i \in DOMAIN restaurants :
            ~HasCoords(restaurants[i])
              => \A j \in DOMAIN mapMarkers :
                   mapMarkers[j].id # restaurants[i].id
       /\ \A i \in DOMAIN input :
            ~HasCoords(input[i]) => Shown(input[i].id)

\* C22 witness: with a position active, the list shows a listing that has a
\* latitude but no longitude, and the map holds markers of other listings
C22_Witness ==
  /\ gpsActive
  /\ mapMarkers # <<>>
  /\ \E i \in DOMAIN displayed :
       IsNum(displayed[i].lat) /\ ~IsNum(displayed[i].lng)

\* C23: the restaurant markers on the map are exactly one marker per
\* listing with coordinates of the collection last given to the map.
C23_MarkersMatchCollection ==
  (~loading /\ ~fetchError) =>
    /\ \A i \in DOMAIN displayed :
         HasCoords(displayed[i])
           => Cardinality({ j \in DOMAIN mapMarkers :
                              mapMarkers[j].id = displayed[i].id }) = 1
    /\ \A j \in DOMAIN mapMarkers :
         \E i \in DOMAIN displayed :
           /\ HasCoords(displayed[i])
           /\ mapMarkers[j] = [id |-> displayed[i].id,
                               lat |-> displayed[i].lat,
                               lng |-> displayed[i].lng]

\* C23 witness: a listing with coordinates has left the displayed
\* collection (its district is not the selected one) and markers remain
C23_Witness ==
  /\ ~loading
  /\ selectedDistrict # AllDistricts
  /\ mapMarkers # <<>>
  /\ \E i \in DOMAIN restaurants :
       HasCoords(restaurants[i]) /\ ~Shown(restaurants[i].id)

\* The viewport is centred on the active position
CentredOnVisitor ==
  mapView = [t |-> "center", pts |-> { <<coords.lat, coords.lng>> }]

\* C24: the visitor marker is on the map exactly when a position is active,
\* there is at most one, it stands at the active position, and every change
\* of the active position leaves the viewport centred on the new position.
C24_VisitorMarker ==
  [][ /\ (~loading' /\ ~fetchError') =>
           /\ (userLayers' # <<>>) <=> gpsActive'
           /\ Len(userLayers') <= 1
           /\ gpsActive' => userLayers' = <<coords'>>
      /\ (coords' # coords /\ coords' # NullCoords) => CentredOnVisitor'
    ]_vars

\* C24 witness: a fix is active, the one visitor marker stands on it and the
\* viewport is centred there, with restaurant markers on the map
C24_Witness ==
  /\ gpsActive
  /\ gpsPending = 0
  /\ sinceClear = FALSE
  /\ userLayers = <<coords>>
  /\ coords = Pos(3187000, 325840000)
  /\ mapMarkers # <<>>
  /\ CentredOnVisitor

\* The page's lat/lng
FormPos == <<formLat, formLng>>

\* A position rounded to six decimals, as updatePin rounds it
Rounded(ll) == <<Round6(ll[1]), Round6(ll[2])>>

\* C25: every drag-end and every tap sets PinState to the (rounded) new
\* position and calls onPinChange exactly once with it, so that afterwards
\* the page's lat/lng equal PinState.
C25_PinEventUpdates ==
  [][pinEvents' = pinEvents + 1 =>
       /\ \E ll \in RawLatLngs : pinCoords' = Rounded(ll)
       /\ pinCoords' = Rounded(markerPos')
       /\ FormPos' = pinCoords'
       /\ pinChangeCalls' = pinChangeCalls + 1]_vars

\* C25 witness: a tap at a position that rounding changes has been handled
C25_Witness ==
  /\ pinSource = "tap"
  /\ pinCoords = Rounded(<<3250004, 325700006>>)
  /\ FormPos = pinCoords
  /\ pinChangeCalls = pinEvents

\* Two positions are less than 1e-6 degree (10 units) apart in both
\* coordinates
WithinEpsilon(a, b) ==
  /\ a[1] - b[1] < 10 /\ b[1] - a[1] < 10
  /\ a[2] - b[2] < 10 /\ b[2] - a[2] < 10

\* C26: an external coordinate (lookup result, loaded record) within
\* epsilon of the current pin moves nothing; one farther away puts the
\* marker, the view and PinState on it.
C26_EpsilonGuard ==
  [][(pinEvents' = pinEvents /\ FormPos' # FormPos) =>
       IF WithinEpsilon(FormPos', pinCoords)
         THEN /\ markerPos' = markerPos
              /\ viewCenter' = viewCenter
              /\ pinCoords' = pinCoords
         ELSE /\ markerPos' = FormPos'
              /\ viewCenter' = FormPos'
              /\ pinCoords' = FormPos']_vars

\* C27: onPinChange is invoked by drag-end and tap only; a lookup result or
\* a loaded record never invokes it.
C27_OnlyPinEventsFire ==
  [][pinChangeCalls' # pinChangeCalls => pinEvents' = pinEvents + 1]_vars

\* C27 witness: external coordinates have moved the pin and then been
\* repeated, and onPinChange was never called
C27_Witness ==
  /\ pinChangeCalls = 0
  /\ pinEvents = 0
  /\ pinCoords # <<DefaultLat, DefaultLng>>
  /\ geoIssued >= 2
  /\ geoInFlight = {}

\* C28 as stated: after every event the chain of updates is finite and the
\* marker, PinState and the page's lat/lng are equal.
C28_QuiescentEqual ==
  /\ chainUpdates <= 3
  /\ markerPos = pinCoords
  /\ pinCoords = FormPos

\* C28 amended: after every event the chain of updates is finite and the
\* marker, PinState and the page's lat/lng are less than 1e-6 degree apart
\* (the rounding of updatePin).
C28_QuiescentWithinRounding ==
  /\ chainUpdates <= 3
  /\ WithinEpsilon(markerPos, pinCoords)
  /\ WithinEpsilon(pinCoords, FormPos)
  /\ WithinEpsilon(markerPos, FormPos)

\* C28 witness: after a drag-end or tap the marker stands where it was
\* dropped, PinState and the page hold the rounded position
C28_Witness ==
  /\ pinEvents >= 1
  /\ markerPos # pinCoords
  /\ pinCoords = Rounded(markerPos)
  /\ pinCoords = FormPos

\* The pairs single events deliver: the default, a rounded drag-end or tap
\* position, a lookup result, the loaded record
DeliveredPairs ==
  { <<DefaultLat, DefaultLng>> }
    \cup { Rounded(ll) : ll \in RawLatLngs }
    \cup { <<parseFloat(NominatimFirst(a).lat),
             parseFloat(NominatimFirst(a).lon)>> : a \in Addresses }
    \cup { <<OrDefault(doc.lat, DefaultLat), OrDefault(doc.lng, DefaultLng)>> :
             doc \in Records }

C30_GeocodeFailureKeeps ==
  [][\A tag \in 1..MaxLookups, o \in { "reject", "empty" } :
       GeocodeResolve(tag, o)
         => /\ UNCHANGED <<formLat, formLng, pinCoords, markerPos,
                           viewCenter>>
            /\ ~geoUnhandled']_vars

\* C30 witness: a lookup issued after a drag-end or tap has ended and the
\* page still holds the dragged position, which no lookup returns
C30_Witness ==
  /\ pinEvents >= 1
  /\ pinTick < geoIssued
  /\ geoInFlight = {}
  /\ ~recordLoaded
  /\ FormPos = Rounded(<<3250004, 325700006>>)
  /\ pinCoords = FormPos

\* C36: in the displayed list every featured listing stands before every
\* listing that is not featured.
C36_FeaturedFirst ==
  \A i, j \in DOMAIN displayed :
    (i < j /\ displayed[j].featured) => displayed[i].featured

\* C32 as stated: the stored position and the active flag change only in a
\* step of a position callback or of a clear, and a step that changes the
\* district, the category or the query leaves both as they were.
C32_FiltersKeepPosition ==
  [][/\ (coords' # coords \/ gpsActive' # gpsActive)
          => \/ gpsPending' = gpsPending - 1
             \/ coords' = NullCoords /\ ~gpsActive'
     /\ (\/ selectedDistrict' # selectedDistrict
         \/ selectedCat' # selectedCat
         \/ searchQuery' # searchQuery)
          => UNCHANGED <<coords, gpsActive>>]_vars

\* C32 amended: the stored position and the active flag change only in a
\* step of a position callback or of a clear; a step that changes the
\* category or the query leaves both as they were, and a step that changes
\* the district clears them.
C32_CategoryAndQueryKeepPosition ==
  [][/\ (coords' # coords \/ gpsActive' # gpsActive)
          => \/ gpsPending' = gpsPending - 1
             \/ coords' = NullCoords /\ ~gpsActive'
     /\ (selectedCat' # selectedCat \/ searchQuery' # searchQuery)
          => UNCHANGED <<coords, gpsActive>>
     /\ selectedDistrict' # selectedDistrict
          => coords' = NullCoords /\ ~gpsActive']_vars

\* C32 witness: a position is stored and active while a category and a
\* query other than the defaults are selected
C32_Witness ==
  /\ gpsActive
  /\ coords # NullCoords
  /\ selectedCat # CatAll
  /\ searchQuery # <<>>

\* C31: a lookup that fails (rejection or empty result) puts a notice of
\* the failure on screen and issues no further lookup.
C31_FailureNotice ==
  [][\A tag \in 1..MaxLookups, o \in { "reject", "empty" } :
       GeocodeResolve(tag, o)
         => /\ toast' # "null"
            /\ toast' # MsgMapUpdated
            /\ toastTimer'
            /\ geoIssued' = geoIssued]_vars

\* Reading obj.source: undefined when the object has no such property
SourceOf(obj) ==
  IF "source" \in DOMAIN obj THEN obj.source ELSE "undefined"

\* C35: every step that changes PinState leaves it with the source of the
\* change: "drag" after a drag-end, "tap" after a map tap, "external" after
\* a coordinate supplied from outside.
C35_SourceRecorded ==
  [][pinCoords' # pinCoords
       => SourceOf(PinStateObject(pinCoords'))
            = IF pinEvents' = pinEvents + 1 THEN pinSource' ELSE "external"]_vars

\* C37: whenever the loading flag is set, a later state has it cleared with
\* the service active or in error, however many requests overlap (the
\* browser calls back every request).
C37_RequestEnds ==
  gpsLoading ~> (~gpsLoading /\ (gpsActive \/ gpsError # "null"))

\* C37 witness: two overlapping requests have both been called back, one
\* with a fix and one with an error, and the loading flag is cleared
C37_Witness ==
  /\ gpsPending = 0
  /\ ~gpsLoading
  /\ gpsActive
  /\ gpsError # "null"

\* C38: every entry of the pre-order of a stored booking was added from the
\* restaurant the booking is for, and from no other.
C38_PreOrderOfBookedRestaurant ==
  lastBooking.t = "booking"
    => \A e \in lastBooking.preOrder : e.from = { lastBooking.restaurantId }

\* C39: a non-empty cart has cartRestaurantId set and every entry was added
\* while that restaurant was selected; a step that opens the detail page of
\* another restaurant than the cart's leaves the cart empty, and so does,
\* before it adds, a step that adds an item of another restaurant.
C39_CartOfOneRestaurant ==
  /\ [](cart # {}
          => /\ cartRestaurantId # "null"
             /\ \A e \in cart : e.from = { cartRestaurantId })
  /\ [][/\ (/\ page' = "detail"
            /\ selectedRestaurant' # selectedRestaurant
            /\ cartRestaurantId \notin { "null", selectedRestaurant' })
              => cart' = {} /\ cartRestaurantId' = "null"
        /\ (/\ cart' # cart
            /\ cart' # {}
            /\ cartRestaurantId \notin { "null", cartRestaurantId' })
              => \A e \in cart' : e.qty = 1 /\ Cardinality(cart') = 1]_vars

\* C39 witness: a pre-order of restaurant A was booked and the modal closed,
\* and the cart now holds two different items added on B's detail page
C39_Witness ==
  /\ lastBooking.t = "booking"
  /\ lastBooking.restaurantId = "A"
  /\ lastBooking.preOrder # {}
  /\ page = "detail"
  /\ selectedRestaurant = "B"
  /\ cartRestaurantId = "B"
  /\ Cardinality(cart) = 2

\* The maps a component owns
WidgetsOf(v) == { w \in widgets : w.view = v }

\* C33: each map component owns at most one live map and none while it is
\* not mounted; every live map is the one its mounted component holds, and
\* no handler has run on a map its component had left.
C33_OneWidgetPerView ==
  /\ \A v \in Views :
       /\ Cardinality(WidgetsOf(v)) <= 1
       /\ ~mounted[v] => WidgetsOf(v) = {}
  /\ \A w \in widgets : mounted[w.view] /\ mapObj[w.view] = w.id
  /\ ~orphanEvent

\* C33 witness: several maps were created, a handler ran, and every
\* component has been unmounted again
C33_Witness ==
  /\ created >= 2
  /\ eventWidget # 0
  /\ \A v \in Views : ~mounted[v]

\* C34: while ReadOnlyMap has a map, the map carries exactly one marker, at
\* the listing's position, and is at the zoom and centre it was created
\* with.
C34_ReadOnlyFixed ==
  mapObj["readonly"] # 0
    => /\ roMarkers = { <<detailListing.lat.v, detailListing.lng.v>> }
       /\ roZoom = ReadOnlyZoom
       /\ roCenter = <<detailListing.lat.v, detailListing.lng.v>>

\* C40: a listing with numeric coordinates, 0 included, has a marker on
\* the browse map, is offered its read-only map (created once the block is
\* expanded), and seeds the owner editor with its stored coordinates.
C40_ZeroIsACoordinate ==
  /\ [](\A i \in DOMAIN browseProps :
          HasCoords(browseProps[i])
            => \E k \in DOMAIN browseMarkers :
                 /\ browseMarkers[k].id = browseProps[i].id
                 /\ browseMarkers[k].lat = browseProps[i].lat
                 /\ browseMarkers[k].lng = browseProps[i].lng)
  /\ [](HasCoords(detailListing)
          => /\ MapBlockShown(detailListing)
             /\ showMap => mapObj["readonly"] # 0)
  /\ [][\A doc \in EditorRecords :
          (populateForm(doc) /\ HasCoords(doc))
            => formLat' = doc.lat.v /\ formLng' = doc.lng.v]_vars

====
